---- MODULE Spec2Model ----
(***************************************************************************)
(* AutoAdsPro: the buffering + queueing core.                              *)
(*                                                                         *)
(*   MessageQueueService  (message_queue rows, enqueue, processQueue)      *)
(*   ReportQueueService   (report_queue rows, enqueue, processReports)     *)
(*   MessageBuffer        (per-jid debounce buffer)                        *)
(*                                                                         *)
(* Every await of the TypeScript source is a step boundary: an async       *)
(* method is a small process whose pc names the await it is suspended at.  *)
(***************************************************************************)
EXTENDS Integers, Sequences, FiniteSets, TLC

VARIABLES
    instance,       \* which queue instance this run exercises (they share no state)
    now,            \* the wall clock, read by new Date()
    \* ---- MessageQueueService
    mq,             \* the message_queue table: row id = index
    enq,            \* the enqueue calls: pc, arguments, the `existing` row read
    isProcessing,   \* MessageQueueService.isProcessing
    tick,           \* the processQueue invocations: pc, `pending`, caught error
    att,            \* per row: the attempts on it that ended in a non-rate-limit error
    fed,            \* per row: the messages enqueue calls wrote to it, in order
    procPayload,    \* per row: the payload read by the attempt that completed it
    overlap,        \* per jid: did two enqueue calls for it ever overlap
    \* ---- ReportQueueService
    rq,             \* the report_queue table: row id = index
    rIsProcessing,  \* ReportQueueService.isProcessing
    rtick,          \* the processReports invocations: pc, `pending`, caught error
    ratt,           \* per row: the attempts on it that ended in a non-rate-limit error
    \* ---- both queues
    skipped,        \* a poll call returned at the guard during the tick in flight
    noKey,          \* the latest poll call returned because no API key was available
    escaped,        \* some poll call let an exception escape to its caller
    \* ---- MessageBuffer
    clock,          \* the time of the timer clock, in ms
    buffers,        \* this.buffers: jid -> texts (a Map: the domain is its key set)
    timers,         \* this.timers: jid -> timer handle
    armed,          \* the timers setTimeout has armed and nothing has cleared or fired
    nAdds,          \* add calls made so far (names the texts and the timer handles)
    lastAdd,        \* per jid: when its latest add ran and the debounce it chose
    lastCb,         \* what the latest processBatchCallback call did
    hist,           \* per jid: its add calls and onBatch calls, in order
    \* ---- RateLimiter
    rlNow,          \* Date.now()
    lastRequestTime,    \* RateLimiter.lastRequestTime
    requestQueue,   \* RateLimiter.requestQueue: the queued wrappers, by call
    isProcessingQueue,  \* RateLimiter.isProcessingQueue
    rlCall,         \* the execute calls: pc, attempt, timer, result; the fn() calls
                    \* made and the kinds of error they ended in
    drain,          \* the processQueue invocations past the guard: pc, awaited call
    rlSteps,        \* steps of time taken so far
    \* ---- GroupMetadataCache
    cNow,           \* Date.now()
    inMemoryCache,  \* this.inMemoryCache: jid -> {data, timestamp}
    tablesInitialized,  \* this.tablesInitialized
    dbAvailable,    \* this.dbAvailable
    groupsTable,    \* the rows of the groups table: jid -> row
    dbHealth,       \* what the database does with a statement right now
    cCall,          \* the getOrNull / setFromApi calls: pc, arguments, now, result
    cSteps,         \* steps of time taken so far
    \* ---- EphemeralAdsService
    eNow,           \* Date.now()
    client,         \* this.client is set
    adsArrays,      \* the arrays this.ads has pointed to, by identity
    adsRef,         \* the array this.ads points to
    persisted,      \* the list in ephemeral_ads.json
    deleteCalls,    \* the deleteMessage calls made: <<jid, messageKey>> -> how many
    deleteFailed,   \* the <<jid, messageKey>> of the deleteMessage calls that threw
    tracked,        \* every record the list has held, in the order of tracking
    pass,           \* the runCleanup calls: pc, now, array iterated, index, remainingAds
    nAds,           \* trackAd calls so far
    eSteps,         \* steps of time taken so far
    notices,        \* the notifyOwner calls about failed jobs: <<queue, job id>> -> how many
    \* ---- cleanup() of the two queues
    cleanupCall,    \* the cleanup() call: pc and the cutoff date it computed
    jumps,          \* long waits so far
    \* ---- BackgroundWorker
    isRunning,      \* this.isRunning
    intervals,      \* messageQueueInterval, reportQueueInterval, cleanupInterval: handle or 0
    armedTimers,    \* the interval timers of the runtime that are armed: handle and callback
    nextHandle,     \* the handle the next setInterval returns
    fired,          \* how often each callback has been run
    wOps,           \* start / stop calls so far
    wLast,          \* the latest of them
    \* ---- MarketingService broadcasts
    bcNow,          \* the time, in ms
    broadcast,      \* the handleAdSlot / handleFactSlot call: pc, groups, loop index, timer
    sendAttempts,   \* the sendText / sendImage calls made: group, time, outcome
    bcSteps,        \* steps of time taken so far
    \* ---- pure functions
    fnArg,          \* the arguments a function is called with
    fnRes           \* what it returned

mqv == <<mq, enq, isProcessing, tick, att, fed, procPayload, overlap>>
rqv == <<rq, rIsProcessing, rtick, ratt>>
bufv == <<clock, buffers, timers, armed, nAdds, lastAdd, lastCb, hist>>
rlv == <<rlNow, lastRequestTime, requestQueue, isProcessingQueue, rlCall, drain, rlSteps>>
cachev == <<cNow, inMemoryCache, tablesInitialized, dbAvailable, groupsTable, dbHealth,
            cCall, cSteps>>
ephv == <<eNow, client, adsArrays, adsRef, persisted, deleteCalls, deleteFailed, tracked,
          pass, nAds, eSteps>>
retv == <<cleanupCall, jumps>>
workv == <<isRunning, intervals, armedTimers, nextHandle, fired, wOps, wLast>>
purev == <<fnArg, fnRes>>
bcv == <<bcNow, broadcast, sendAttempts, bcSteps>>
vars == <<instance, bcv, notices, now, mqv, rqv, skipped, noKey, escaped, bufv, rlv, cachev, ephv,
          workv, retv, purev>>

\* what the actions of one component leave alone
MQ_Frame == <<instance, bcv, notices, rqv, bufv, rlv, cachev, ephv, workv, retv, purev>>
RQ_Frame == <<instance, bcv, mqv, bufv, rlv, cachev, ephv, workv, retv, purev>>
B_Frame == <<instance, bcv, notices, now, mqv, rqv, skipped, noKey, escaped, rlv, cachev, ephv,
             workv, retv, purev>>
RL_Frame == <<instance, bcv, notices, now, mqv, rqv, skipped, noKey, escaped, bufv, cachev, ephv,
              workv, retv, purev>>
C_Frame == <<instance, bcv, notices, now, mqv, rqv, skipped, noKey, escaped, bufv, rlv, ephv, workv,
             retv, purev>>
E_Frame == <<instance, bcv, notices, now, mqv, rqv, skipped, noKey, escaped, bufv, rlv, cachev,
             workv, retv, purev>>
W_Frame == <<instance, bcv, notices, now, mqv, rqv, skipped, noKey, escaped, bufv, rlv, cachev, ephv,
             retv, purev>>
P_Frame == <<instance, bcv, notices, now, mqv, rqv, skipped, noKey, escaped, bufv, rlv, cachev, ephv,
             workv, retv>>
BC_Frame == <<instance, notices, now, mqv, rqv, skipped, noKey, escaped, bufv, rlv, cachev,
             ephv, workv, retv, purev>>

----------------------------------------------------------------------------
\* Bounds of the model.
MaxEnq == 2         \* enqueue calls made in a run
MaxTicks == 2       \* worker ticks that can be in flight together
MaxReports == 2     \* report jobs enqueued in a run
MaxAdds == 3        \* MessageBuffer.add calls made in a run
MaxSteps == 4       \* steps of the timer clock, each of Quantum ms
MaxActive == 12     \* active conversations getAdaptiveDebounce is asked about
MaxRLCalls == 3     \* RateLimiter.execute / RateLimiter.queue calls made in a run
MaxDrains == 2      \* processQueue invocations that could be draining together
MaxRLSteps == 3     \* steps of time in a RateLimiter run
JitterSteps == 8    \* Math.random() returns one of 0/8, 1/8, ..., 7/8
MaxAttempt == 4     \* the attempts calculateBackoffDelay is asked about: 0..4
MaxCacheCalls == 2  \* getOrNull / setFromApi calls made in a run
MaxCacheSteps == 3  \* steps of time in a cache run, each of CacheQuantum ms
MaxAds == 2         \* trackAd calls made in a run
MaxPasses == 2      \* runCleanup calls made in a run
MaxEphSteps == 2    \* steps of time in a run of the ad tracker, each of a minute
MaxJumps == 2       \* long waits in a run with cleanup(), each of half a retention window
MaxWorkerOps == 4   \* start / stop calls on the BackgroundWorker in a run
MaxFired == 2       \* runs of each interval callback of the BackgroundWorker
MaxGroups == 3      \* groups in the list of one broadcast
MaxBcSteps == 4     \* steps of time, of half an inter-send delay each, in a broadcast

JidSeq == <<"A", "B">>
Jids == {JidSeq[k] : k \in 1..Len(JidSeq)}
Calls == 1..MaxEnq
Ticks == 1..MaxTicks

\* private MAX_RETRIES = 3
MAX_RETRIES == 3

\* const priorityNum = priority === 'owner' ? 0 : 2
PriorityNum(priority) == IF priority = "owner" THEN 0 ELSE 2

\* The errors a unit of work can raise: the fields the two classifiers of the
\* repository read (code, data, statusCode) and the message, as its words.
Err429 == [code |-> 429, data |-> 0, statusCode |-> 0,
           message |-> <<"Too", "Many", "Requests">>]
ErrExhausted == [code |-> 0, data |-> 0, statusCode |-> 0,
                 message |-> <<"ALL_KEYS_EXHAUSTED">>]
ErrOther == [code |-> 500, data |-> 0, statusCode |-> 0,
             message |-> <<"Internal", "error">>]
ErrContact == [code |-> 0, data |-> 0, statusCode |-> 0,
               message |-> <<"Contact", "not", "found">>]
ErrDb == [code |-> 0, data |-> 0, statusCode |-> 0, message |-> <<"db", "error">>]
\* errors without a code that carry 429 in one of the other places
ErrData429 == [code |-> 0, data |-> 429, statusCode |-> 0,
               message |-> <<"Connection", "Closed">>]
ErrStatus429 == [code |-> 0, data |-> 0, statusCode |-> 429,
                 message |-> <<"Too", "Many", "Requests">>]
ErrMessage429 == [code |-> 0, data |-> 0, statusCode |-> 0,
                  message |-> <<"Request", "failed", "with", "status", "429">>]
ErrOverlimit == [code |-> 0, data |-> 0, statusCode |-> 0,
                 message |-> <<"rate-overlimit">>]
WorkErrors == {Err429, ErrExhausted, ErrOther,
               ErrData429, ErrStatus429, ErrMessage429, ErrOverlimit}
NoErr == [code |-> 0, data |-> 0, statusCode |-> 0, message |-> <<>>]

\* error.code === 429 || error.message === 'ALL_KEYS_EXHAUSTED'
IsRateLimit(error) == error.code = 429 \/ error.message = <<"ALL_KEYS_EXHAUSTED">>

NoRow == [id |-> 0]
NoCall == [pc |-> "new", jid |-> "A", messages |-> <<>>, priority |-> "normal",
           existing |-> NoRow]

----------------------------------------------------------------------------
\* MessageQueueService

NonTerminal(status) == status \in {"pending", "processing"}

\* mutant: the lookup of enqueue matches pending rows only
MQ_Existing_PendingOnly(jid) ==
    {i \in 1..Len(mq) : mq[i].jid = jid /\ mq[i].status = "pending"}

\* rows matching  jid = contactPhone AND status IN (pending, processing)
MQ_Existing(jid) ==
    {i \in 1..Len(mq) : mq[i].jid = jid /\ NonTerminal(mq[i].status)}

\* Jids are opaque: a call names a jid already used or the first unused one.
UsedJids == {mq[i].jid : i \in 1..Len(mq)} \cup
            {enq[c].jid : c \in {d \in Calls : enq[d].pc \in {"select", "write"}}}
CallJids == {JidSeq[k] : k \in {n \in 1..Len(JidSeq) :
                                  \A m \in 1..(n - 1) : JidSeq[m] \in UsedJids}}

\* a call starts: enqueue(contactPhone, messages, priority) issues its select
MQ_EnqueueCall(c) ==
    /\ instance = "message"
    /\ enq[c].pc = "new"
    /\ \A d \in Calls : d < c => enq[d].pc # "new"
    /\ \E jid \in CallJids, priority \in {"owner", "normal"} :
          /\ enq' = [enq EXCEPT ![c] = [pc |-> "select", jid |-> jid,
                                        messages |-> <<c>>, priority |-> priority,
                                        existing |-> NoRow]]
          /\ overlap' = [overlap EXCEPT ![jid] =
                            @ \/ \E d \in Calls : /\ enq[d].pc \in {"select", "write"}
                                                  /\ enq[d].jid = jid]
    /\ UNCHANGED <<MQ_Frame, now, mq, isProcessing, tick, att, fed, procPayload,
                   skipped, noKey, escaped>>

\* the select resolves: existing = rows[0]
MQ_EnqueueSelect(c) ==
    /\ enq[c].pc = "select"
    /\ \/ /\ MQ_Existing(enq[c].jid) = {}
          /\ enq' = [enq EXCEPT ![c].pc = "write", ![c].existing = NoRow]
       \/ \E i \in MQ_Existing(enq[c].jid) :
             enq' = [enq EXCEPT ![c].pc = "write",
                                ![c].existing = [id |-> i, messageData |-> mq[i].messageData]]
    /\ UNCHANGED <<MQ_Frame, now, mq, isProcessing, tick, att, fed, procPayload,
                   overlap, skipped, noKey, escaped>>

\* mutant: the new messages are put in front of the stored ones
MergedMessages_Prepend(existingMessages, messages) == messages \o existingMessages

\* const mergedMessages = [...existingMessages, ...messages]
MergedMessages(existingMessages, messages) == existingMessages \o messages

\* new Date(): the clock has moved on since it was last read
ReadClock == now' = now + 1

\* the row a new queue entry is inserted as
NewRow(jid, messages, priority, date) ==
    [jid |-> jid, messageData |-> messages, priority |-> PriorityNum(priority),
     status |-> "pending", retryCount |-> 0, createdAt |-> date,
     processedAt |-> -1]

\* the update (merge) or the insert (new row) of enqueue takes effect
MQ_EnqueueWrite(c) ==
    /\ enq[c].pc = "write"
    /\ IF enq[c].existing.id # 0
       THEN LET id == enq[c].existing.id IN
            /\ mq' = [mq EXCEPT ![id].messageData =
                         MergedMessages(enq[c].existing.messageData, enq[c].messages)]
            /\ fed' = [fed EXCEPT ![id] = @ \o enq[c].messages]
            /\ UNCHANGED <<att, now>>
       ELSE /\ ReadClock
            /\ mq' = Append(mq, NewRow(enq[c].jid, enq[c].messages, enq[c].priority, now'))
            /\ fed' = Append(fed, enq[c].messages)
            /\ att' = Append(att, 0)
    /\ enq' = [enq EXCEPT ![c] = [NoCall EXCEPT !.pc = "done"]]
    /\ UNCHANGED <<MQ_Frame, isProcessing, tick, procPayload, overlap, skipped, noKey,
                   escaped>>

----------------------------------------------------------------------------
\* MessageQueueService.processQueue

\* WHERE status = 'pending' ORDER BY priority, createdAt LIMIT 1
\* (rows equal in both keys come back in an order SQL does not fix)
\* mutant: ORDER BY createdAt alone
Before_ByAge(a, b) == a.createdAt <= b.createdAt

Before(a, b) ==
    \/ a.priority < b.priority
    \/ a.priority = b.priority /\ a.createdAt <= b.createdAt

\* mutant: the select of a tick has no condition on the status
MQ_NextPending_AnyStatus ==
    LET P == {i \in 1..Len(mq) : mq[i].status # "deleted"}
    IN  {i \in P : \A j \in P : Before(mq[i], mq[j])}

MQ_NextPending ==
    LET P == {i \in 1..Len(mq) : mq[i].status = "pending"}
    IN  {i \in P : \A j \in P : Before(mq[i], mq[j])}

\* mutant: the single-flight guard is missing
MQ_Guard_Off == FALSE

\* if (this.isProcessing) return;
MQ_Guard == isProcessing

\* calls: the AI generation calls the invocation has made
Idle == [pc |-> "idle", pending |-> NoRow, error |-> NoErr, calls |-> 0]

\* the finally block, then the invocation ends
MQ_Finally(t) ==
    /\ isProcessing' = FALSE
    /\ tick' = [tick EXCEPT ![t] = Idle]
    /\ skipped' = FALSE
    /\ UNCHANGED noKey

\* a timer tick calls processQueue(); hasKey is keyManager.hasAvailableKey()
MQ_ProcessQueue(t) ==
    /\ instance = "message"
    /\ tick[t].pc = "idle"
    /\ \A u \in Ticks : u < t => tick[u].pc # "idle"
    /\ \E hasKey \in BOOLEAN :
          IF MQ_Guard
          THEN /\ skipped' = TRUE
               /\ UNCHANGED <<isProcessing, tick, noKey>>
          ELSE IF ~hasKey
          THEN /\ noKey' = TRUE
               /\ UNCHANGED <<isProcessing, tick, skipped>>
          ELSE /\ noKey' = FALSE
               /\ isProcessing' = TRUE
               /\ tick' = [tick EXCEPT ![t].pc = "select"]
               /\ UNCHANGED skipped
    /\ UNCHANGED <<MQ_Frame, now, mq, enq, att, fed, procPayload, overlap, escaped>>

\* the select of the next pending row resolves
MQ_SelectPending(t) ==
    /\ tick[t].pc = "select"
    /\ IF MQ_NextPending = {}
       THEN MQ_Finally(t)
       ELSE /\ \E i \in MQ_NextPending :
                 tick' = [tick EXCEPT ![t].pc = "mark",
                                      ![t].pending = [id |-> i, row |-> mq[i]]]
            /\ UNCHANGED <<isProcessing, skipped, noKey>>
    /\ UNCHANGED <<MQ_Frame, now, mq, enq, att, fed, procPayload, overlap, escaped>>

\* update ... set status = 'processing' where id = pending.id
MQ_MarkProcessing(t) ==
    /\ tick[t].pc = "mark"
    /\ mq' = [mq EXCEPT ![tick[t].pending.id].status = "processing"]
    /\ tick' = [tick EXCEPT ![t].pc = "contact"]
    /\ UNCHANGED <<MQ_Frame, now, enq, isProcessing, att, fed, procPayload, overlap,
                   skipped, noKey, escaped>>

\* the contact lookup resolves; if (!contact) throw new Error('Contact not found')
MQ_GetContact(t) ==
    /\ tick[t].pc = "contact"
    /\ \E found \in BOOLEAN :
          IF found
          THEN /\ tick' = [tick EXCEPT ![t].pc = "generate", ![t].calls = @ + 1]
               /\ UNCHANGED att
          ELSE /\ tick' = [tick EXCEPT ![t].pc = "catch", ![t].error = ErrContact]
               /\ att' = [att EXCEPT ![tick[t].pending.id] = @ + 1]
    /\ UNCHANGED <<MQ_Frame, now, mq, enq, isProcessing, fed, procPayload, overlap,
                   skipped, noKey, escaped>>

\* geminiService.generateReply(...) settles
MQ_Generate(t) ==
    /\ tick[t].pc = "generate"
    /\ \/ /\ tick' = [tick EXCEPT ![t].pc = "complete"]
          /\ UNCHANGED att
       \/ \E e \in WorkErrors :
             /\ tick' = [tick EXCEPT ![t].pc = "catch", ![t].error = e]
             /\ att' = IF IsRateLimit(e)
                       THEN att
                       ELSE [att EXCEPT ![tick[t].pending.id] = @ + 1]
    /\ UNCHANGED <<MQ_Frame, now, mq, enq, isProcessing, fed, procPayload, overlap,
                   skipped, noKey, escaped>>

\* update ... set status = 'completed', processedAt = new Date()
MQ_MarkCompleted(t) ==
    /\ tick[t].pc = "complete"
    /\ LET id == tick[t].pending.id IN
       /\ ReadClock
       /\ mq' = [mq EXCEPT ![id].status = "completed", ![id].processedAt = now']
       /\ procPayload' = [procPayload EXCEPT ![id] = tick[t].pending.row.messageData]
    /\ MQ_Finally(t)
    /\ UNCHANGED <<MQ_Frame, enq, att, fed, overlap, escaped>>

\* mutant: off by one, newRetryCount > this.MAX_RETRIES
RetriesExhausted_Late(newRetryCount) == newRetryCount > MAX_RETRIES

\* if (newRetryCount >= this.MAX_RETRIES)
RetriesExhausted(newRetryCount) == newRetryCount >= MAX_RETRIES

\* mutant: a rate-limit error is counted against the retry budget
MQ_AfterError_CountsRateLimit(row, pending, error) ==
    LET newRetryCount == pending.retryCount + 1 IN
    IF RetriesExhausted(newRetryCount)
    THEN [row EXCEPT !.status = "failed"]
    ELSE [row EXCEPT !.status = "pending", !.retryCount = newRetryCount]

\* mutant: the rate-limit branch does not put the job back to pending
MQ_AfterError_NoRevert(row, pending, error) ==
    IF IsRateLimit(error)
    THEN row
    ELSE LET newRetryCount == pending.retryCount + 1 IN
         IF RetriesExhausted(newRetryCount)
         THEN [row EXCEPT !.status = "failed"]
         ELSE [row EXCEPT !.status = "pending", !.retryCount = newRetryCount]

\* the row written by the catch block for `error`, given the `pending` snapshot
MQ_AfterError(row, pending, error) ==
    IF IsRateLimit(error)
    THEN [row EXCEPT !.status = "pending"]
    ELSE LET newRetryCount == pending.retryCount + 1 IN
         IF RetriesExhausted(newRetryCount)
         THEN [row EXCEPT !.status = "failed"]
         ELSE [row EXCEPT !.status = "pending", !.retryCount = newRetryCount]

\* the status update of the catch block takes effect
MQ_HandleError(t) ==
    /\ tick[t].pc = "catch"
    /\ LET id == tick[t].pending.id IN
       mq' = [mq EXCEPT ![id] = MQ_AfterError(@, tick[t].pending.row, tick[t].error)]
    /\ MQ_Finally(t)
    /\ UNCHANGED <<MQ_Frame, now, enq, att, fed, procPayload, overlap, escaped>>

\* a durable-store call of processQueue rejects.  Outside the inner try (the
\* select, the update to 'processing') and inside the catch block nothing
\* catches it: finally runs and the rejection reaches the caller.  Inside the
\* inner try (the contact lookup, the update to 'completed') the catch block
\* receives it like any other error.
MQ_StoreThrows(t) ==
    /\ tick[t].pc \in {"select", "mark", "contact", "complete", "catch"}
    /\ IF tick[t].pc \in {"contact", "complete"}
       THEN /\ tick' = [tick EXCEPT ![t].pc = "catch", ![t].error = ErrDb]
            /\ att' = [att EXCEPT ![tick[t].pending.id] = @ + 1]
            /\ UNCHANGED <<isProcessing, skipped, noKey, escaped>>
       ELSE /\ MQ_Finally(t)
            /\ escaped' = TRUE
            /\ UNCHANGED att
    /\ UNCHANGED <<MQ_Frame, now, mq, enq, fed, procPayload, overlap>>

----------------------------------------------------------------------------
\* ReportQueueService

\* enqueue(contactPhone, conversationId): one insert, no lookup
RQ_NewRow(contactPhone, conversationId, date) ==
    [contactPhone |-> contactPhone, conversationId |-> conversationId,
     status |-> "pending", retryCount |-> 0, createdAt |-> date, updatedAt |-> date]

RQ_UsedPhones == {rq[i].contactPhone : i \in 1..Len(rq)}
RQ_CallPhones == {k \in 1..Len(JidSeq) : \A m \in 1..(k - 1) : JidSeq[m] \in RQ_UsedPhones}

\* a contact has one conversation: its id is the contact's index
RQ_Enqueue ==
    /\ instance = "report"
    /\ Len(rq) < MaxReports
    /\ ReadClock
    /\ \E k \in RQ_CallPhones :
          rq' = Append(rq, RQ_NewRow(JidSeq[k], k, now'))
    /\ ratt' = Append(ratt, 0)
    /\ UNCHANGED <<RQ_Frame, notices, rIsProcessing, rtick, skipped, noKey, escaped>>

\* WHERE status = 'pending' ORDER BY createdAt LIMIT 1
RQ_NextPending ==
    LET P == {i \in 1..Len(rq) : rq[i].status = "pending"}
    IN  {i \in P : \A j \in P : rq[i].createdAt <= rq[j].createdAt}

\* if (this.isProcessing) return;
RQ_Guard == rIsProcessing

\* the finally block, then the invocation ends
RQ_Finally(t) ==
    /\ rIsProcessing' = FALSE
    /\ rtick' = [rtick EXCEPT ![t] = Idle]
    /\ skipped' = FALSE
    /\ UNCHANGED noKey

\* a timer tick calls processReports()
RQ_ProcessReports(t) ==
    /\ instance = "report"
    /\ rtick[t].pc = "idle"
    /\ \A u \in Ticks : u < t => rtick[u].pc # "idle"
    /\ \E hasKey \in BOOLEAN :
          IF RQ_Guard
          THEN /\ skipped' = TRUE
               /\ UNCHANGED <<rIsProcessing, rtick, noKey>>
          ELSE IF ~hasKey
          THEN /\ noKey' = TRUE
               /\ UNCHANGED <<rIsProcessing, rtick, skipped>>
          ELSE /\ noKey' = FALSE
               /\ rIsProcessing' = TRUE
               /\ rtick' = [rtick EXCEPT ![t].pc = "select"]
               /\ UNCHANGED skipped
    /\ UNCHANGED <<RQ_Frame, notices, now, rq, ratt, escaped>>

\* the select of the next pending report resolves
RQ_SelectPending(t) ==
    /\ rtick[t].pc = "select"
    /\ IF RQ_NextPending = {}
       THEN RQ_Finally(t)
       ELSE /\ \E i \in RQ_NextPending :
                 rtick' = [rtick EXCEPT ![t].pc = "mark",
                                        ![t].pending = [id |-> i, row |-> rq[i]]]
            /\ UNCHANGED <<rIsProcessing, skipped, noKey>>
    /\ UNCHANGED <<RQ_Frame, notices, now, rq, ratt, escaped>>

\* update ... set status = 'processing', lastAttempt = new Date()
\* (lastAttempt is written here and read nowhere: the model leaves it out)
RQ_MarkProcessing(t) ==
    /\ rtick[t].pc = "mark"
    /\ rq' = [rq EXCEPT ![rtick[t].pending.id].status = "processing"]
    /\ rtick' = [rtick EXCEPT ![t].pc = "history"]
    /\ UNCHANGED <<RQ_Frame, notices, now, rIsProcessing, ratt, skipped, noKey, escaped>>

\* the awaits of the inner try that change no queue state, in order: the
\* messageLogs select, notifyOwner(report) (it catches its own send error),
\* the conversations update
RQ_Step(t) ==
    /\ rtick[t].pc \in {"history", "notify", "conversation"}
    /\ rtick' = [rtick EXCEPT ![t].pc =
                    CASE @ = "history" -> "generate"
                      [] @ = "notify" -> "conversation"
                      [] @ = "conversation" -> "complete",
                                 ![t].calls = IF rtick[t].pc = "history" THEN @ + 1 ELSE @]
    /\ UNCHANGED <<RQ_Frame, notices, now, rq, rIsProcessing, ratt, skipped, noKey, escaped>>

\* geminiService.generateReport(...) settles
RQ_Generate(t) ==
    /\ rtick[t].pc = "generate"
    /\ \/ /\ rtick' = [rtick EXCEPT ![t].pc = "notify"]
          /\ UNCHANGED ratt
       \/ \E e \in WorkErrors :
             /\ rtick' = [rtick EXCEPT ![t].pc = "catch", ![t].error = e]
             /\ ratt' = IF IsRateLimit(e)
                        THEN ratt
                        ELSE [ratt EXCEPT ![rtick[t].pending.id] = @ + 1]
    /\ UNCHANGED <<RQ_Frame, notices, now, rq, rIsProcessing, skipped, noKey, escaped>>

\* update ... set status = 'completed', updatedAt = new Date()
RQ_MarkCompleted(t) ==
    /\ rtick[t].pc = "complete"
    /\ ReadClock
    /\ rq' = [rq EXCEPT ![rtick[t].pending.id].status = "completed",
                        ![rtick[t].pending.id].updatedAt = now']
    /\ RQ_Finally(t)
    /\ UNCHANGED <<RQ_Frame, notices, ratt, escaped>>

\* notificationService.notifyOwner(...) is called about a job
NotifyOwner(calls, job) ==
    [x \in DOMAIN calls \cup {job} |->
        IF x = job THEN (IF job \in DOMAIN calls THEN calls[job] + 1 ELSE 1) ELSE calls[x]]

\* the row written by the catch block for `error`, given the `pending` snapshot
RQ_AfterError(row, pending, error) ==
    IF IsRateLimit(error)
    THEN [row EXCEPT !.status = "pending"]
    ELSE LET newRetryCount == pending.retryCount + 1 IN
         IF newRetryCount >= MAX_RETRIES
         THEN [row EXCEPT !.status = "failed"]
         ELSE [row EXCEPT !.status = "pending", !.retryCount = newRetryCount]

\* the status update of the catch block takes effect; after the update to
\* 'failed' the tick still awaits notifyOwner(...) before finally
RQ_HandleError(t) ==
    /\ rtick[t].pc = "catch"
    /\ LET id == rtick[t].pending.id
           row == RQ_AfterError(rq[id], rtick[t].pending.row, rtick[t].error)
       IN  /\ rq' = [rq EXCEPT ![id] = row]
           /\ IF row.status = "failed"
              THEN /\ rtick' = [rtick EXCEPT ![t].pc = "notifyFailed"]
                   /\ notices' = NotifyOwner(notices, <<"report", id>>)
                   /\ UNCHANGED <<rIsProcessing, skipped, noKey>>
              ELSE RQ_Finally(t) /\ UNCHANGED notices
    /\ UNCHANGED <<RQ_Frame, now, ratt, escaped>>

\* notifyOwner('Error generating report ...') settles, then finally
RQ_NotifyFailed(t) ==
    /\ rtick[t].pc = "notifyFailed"
    /\ RQ_Finally(t)
    /\ UNCHANGED <<RQ_Frame, notices, now, rq, ratt, escaped>>

\* a durable-store call of processReports rejects: caught inside the inner
\* try (messageLogs select, conversations update, update to 'completed'),
\* not caught outside it (the select, the update to 'processing') nor inside
\* the catch block
RQ_StoreThrows(t) ==
    /\ rtick[t].pc \in {"select", "mark", "history", "conversation", "complete", "catch"}
    /\ IF rtick[t].pc \in {"history", "conversation", "complete"}
       THEN /\ rtick' = [rtick EXCEPT ![t].pc = "catch", ![t].error = ErrDb]
            /\ ratt' = [ratt EXCEPT ![rtick[t].pending.id] = @ + 1]
            /\ UNCHANGED <<rIsProcessing, skipped, noKey, escaped>>
       ELSE /\ RQ_Finally(t)
            /\ escaped' = TRUE
            /\ UNCHANGED ratt
    /\ UNCHANGED <<RQ_Frame, notices, now, rq>>

----------------------------------------------------------------------------
\* MessageBuffer

BASE_DEBOUNCE_MS == 10000
MAX_DEBOUNCE_MS == 30000
Quantum == BASE_DEBOUNCE_MS \div 2
BKeys == {"x", "y"}

\* mutant: the last tier returns the base window
GetAdaptiveDebounce_LastTierBase(activeConversations) ==
    IF activeConversations = 1 THEN BASE_DEBOUNCE_MS
    ELSE IF activeConversations <= 3 THEN 15000
    ELSE IF activeConversations <= 10 THEN 20000
    ELSE BASE_DEBOUNCE_MS

\* getAdaptiveDebounce(), activeConversations = this.buffers.size
GetAdaptiveDebounce(activeConversations) ==
    IF activeConversations = 1 THEN BASE_DEBOUNCE_MS
    ELSE IF activeConversations <= 3 THEN 15000
    ELSE IF activeConversations <= 10 THEN 20000
    ELSE MAX_DEBOUNCE_MS

\* Map.set / Map.delete on a function whose domain is the key set
MapSet(m, k, v) == [x \in DOMAIN m \cup {k} |-> IF x = k THEN v ELSE m[x]]
\* mutant: the key stays in the map
MapDelete_Keep(m, k) == m
MapDelete(m, k) == [x \in DOMAIN m \ {k} |-> m[x]]

\* mutant: the pending timer of the jid is left armed
ClearTimeout_Noop(set, tmap, jid) == set
\* mutant: the pending timers of all jids are cleared
ClearTimeout_All(set, tmap, jid) == {}

\* if (this.timers.has(jid)) clearTimeout(this.timers.get(jid))
ClearTimeout(set, tmap, jid) ==
    IF jid \in DOMAIN tmap THEN {tm \in set : tm.id # tmap[jid]} ELSE set

\* the fields of a MessageBuffer, with the bookkeeping of its calls
BState ==
    [buffers |-> buffers, timers |-> timers, armed |-> armed, nAdds |-> nAdds,
     lastAdd |-> lastAdd, lastCb |-> lastCb, hist |-> hist]

B_Set(s) ==
    /\ buffers' = s.buffers
    /\ timers' = s.timers
    /\ armed' = s.armed
    /\ nAdds' = s.nAdds
    /\ lastAdd' = s.lastAdd
    /\ lastCb' = s.lastCb
    /\ hist' = s.hist

\* add(jid, text) run on the buffer s; `during` says it runs inside a callback
Add(s, jid, during) ==
    LET text == s.nAdds + 1
        userBuffer == IF jid \in DOMAIN s.buffers THEN s.buffers[jid] ELSE <<>>
        newBuffers == MapSet(s.buffers, jid, Append(userBuffer, text))
        debounceTime == GetAdaptiveDebounce(Cardinality(DOMAIN newBuffers))
        timer == [id |-> s.nAdds + 1, jid |-> jid, due |-> clock + debounceTime]
    IN  [buffers |-> newBuffers,
         armed |-> ClearTimeout(s.armed, s.timers, jid) \cup {timer},
         timers |-> MapSet(s.timers, jid, timer.id),
         nAdds |-> s.nAdds + 1,
         lastAdd |-> [s.lastAdd EXCEPT ![jid] = [at |-> clock, debounce |-> debounceTime]],
         lastCb |-> s.lastCb,
         hist |-> [s.hist EXCEPT ![jid] =
                      Append(@, [type |-> "add", text |-> text, during |-> during])]]

\* what processBatchCallback(jid, messages) does before flush returns: it
\* returns, it throws, or it calls back into the buffer for the same jid
Callbacks == {"return", "throw", "add", "flush"}

\* mutant: the callback runs before the accumulator and the timer are removed
Flush_CallbackFirst(s, jid, by, cb) ==
    IF jid \notin DOMAIN s.buffers \/ s.buffers[jid] = <<>>
    THEN [s EXCEPT !.armed = ClearTimeout(s.armed, s.timers, jid),
                   !.timers = MapDelete(s.timers, jid)]
    ELSE LET messages == s.buffers[jid]
             called == IF cb = "add" THEN Add(s, jid, TRUE) ELSE s
         IN  [called EXCEPT
                 !.armed = ClearTimeout(called.armed, called.timers, jid),
                 !.timers = MapDelete(called.timers, jid),
                 !.buffers = MapDelete(called.buffers, jid),
                 !.lastCb = cb,
                 !.hist = [called.hist EXCEPT ![jid] =
                              Append(@, [type |-> "batch", messages |-> messages, by |-> by,
                                         early |-> clock < s.lastAdd[jid].at
                                                            + s.lastAdd[jid].debounce])]]

\* flush(jid) run on the buffer s; `by` says who called, `cb` what the callback does
Flush(s, jid, by, cb) ==
    LET cleared == [s EXCEPT !.armed = ClearTimeout(s.armed, s.timers, jid),
                             !.timers = MapDelete(s.timers, jid)]
    IN  IF jid \notin DOMAIN s.buffers \/ s.buffers[jid] = <<>>
        THEN cleared
        ELSE LET messages == s.buffers[jid]
                 removed ==
                    [cleared EXCEPT
                        !.buffers = MapDelete(s.buffers, jid),
                        !.lastCb = cb,
                        !.hist = [s.hist EXCEPT ![jid] =
                                     Append(@, [type |-> "batch", messages |-> messages,
                                                by |-> by,
                                                early |-> clock < s.lastAdd[jid].at
                                                                   + s.lastAdd[jid].debounce])]]
             IN  \* this.processBatchCallback(jid, messages)
                 CASE cb = "add" -> Add(removed, jid, TRUE)
                   [] cb = "flush" ->
                        [removed EXCEPT
                            !.armed = ClearTimeout(removed.armed, removed.timers, jid),
                            !.timers = MapDelete(removed.timers, jid)]
                   [] OTHER -> removed

\* the callbacks a flush of jid on the buffer s can meet: there is one only if
\* there are messages, and a callback that adds is one more add call
CallbacksOf(s, jid) ==
    IF jid \notin DOMAIN s.buffers \/ s.buffers[jid] = <<>>
    THEN {"return"}
    ELSE {cb \in Callbacks : cb = "add" => s.nAdds < MaxAdds}

\* add(jid, text)
B_Add(jid) ==
    /\ instance = "buffer"
    /\ nAdds < MaxAdds
    /\ B_Set(Add(BState, jid, FALSE))
    /\ UNCHANGED <<B_Frame, clock>>

\* an armed timer whose time has come runs its callback: this.flush(jid)
B_TimerFires ==
    /\ \E tm \in armed :
          /\ tm.due <= clock
          /\ LET s == [BState EXCEPT !.armed = armed \ {tm}]
             IN  \E cb \in CallbacksOf(s, tm.jid) : B_Set(Flush(s, tm.jid, "timer", cb))
    /\ UNCHANGED <<B_Frame, clock>>

\* flush(jid) called directly
B_Flush(jid) ==
    /\ instance = "buffer"
    /\ \E cb \in CallbacksOf(BState, jid) : B_Set(Flush(BState, jid, "flush", cb))
    /\ UNCHANGED <<B_Frame, clock>>

\* time passes
B_Advance ==
    /\ instance = "buffer"
    /\ clock < MaxSteps * Quantum
    /\ clock' = clock + Quantum
    /\ UNCHANGED <<B_Frame, buffers, timers, armed, nAdds, lastAdd, lastCb, hist>>

----------------------------------------------------------------------------
\* RateLimiter

\* the configurations of the module: new RateLimiter(), groupMetadataLimiter,
\* apiCallLimiter; a fraction is [num, den]
DefaultConfig ==
    [maxRetries |-> 5, initialDelayMs |-> 1000, maxDelayMs |-> 60000,
     backoffMultiplier |-> [num |-> 2, den |-> 1],
     jitterFactor |-> [num |-> 1, den |-> 10], throttleDelayMs |-> 500]
GroupMetadataLimiter ==
    [maxRetries |-> 5, initialDelayMs |-> 1500, maxDelayMs |-> 60000,
     backoffMultiplier |-> [num |-> 5, den |-> 2],
     jitterFactor |-> [num |-> 15, den |-> 100], throttleDelayMs |-> 800]
ApiCallLimiter ==
    [maxRetries |-> 3, initialDelayMs |-> 500, maxDelayMs |-> 30000,
     backoffMultiplier |-> [num |-> 2, den |-> 1],
     jitterFactor |-> [num |-> 1, den |-> 10], throttleDelayMs |-> 200]
Configs == {DefaultConfig, GroupMetadataLimiter, ApiCallLimiter}

\* the instance whose calls are followed
Limiter == ApiCallLimiter

RECURSIVE Pow(_, _)
Pow(b, e) == IF e = 0 THEN 1 ELSE b * Pow(b, e - 1)

\* fractions
LessEq(p, q) == p.num * q.den <= q.num * p.den
Whole(n) == [num |-> n, den |-> 1]
Floor(q) == q.num \div q.den

\* Math.min(initialDelayMs * Math.pow(backoffMultiplier, attempt), maxDelayMs)
ExponentialDelay(cfg, attempt) ==
    LET grown == [num |-> cfg.initialDelayMs * Pow(cfg.backoffMultiplier.num, attempt),
                  den |-> Pow(cfg.backoffMultiplier.den, attempt)]
    IN  IF LessEq(grown, Whole(cfg.maxDelayMs)) THEN grown ELSE Whole(cfg.maxDelayMs)

\* exponentialDelay + exponentialDelay * jitterFactor * (Math.random() * 2 - 1),
\* Math.random() = r / JitterSteps
Jittered(cfg, attempt, r) ==
    LET e == ExponentialDelay(cfg, attempt)
        jf == cfg.jitterFactor
    IN  [num |-> e.num * (jf.den * JitterSteps + jf.num * (2 * r - JitterSteps)),
         den |-> e.den * jf.den * JitterSteps]

\* calculateBackoffDelay(attempt): Math.max(exponentialDelay + jitter, initialDelayMs)
CalculateBackoffDelay(cfg, attempt, r) ==
    LET j == Jittered(cfg, attempt, r)
    IN  IF LessEq(Whole(cfg.initialDelayMs), j) THEN j ELSE Whole(cfg.initialDelayMs)

\* what an operation can do: resolve, or reject with one of these errors
RL_Ok == [data |-> 0, statusCode |-> 200, message |-> <<>>]
RL_ErrData429 == [data |-> 429, statusCode |-> 0, message |-> <<"Connection", "Closed">>]
RL_ErrOverlimit == [data |-> 0, statusCode |-> 0, message |-> <<"rate-overlimit">>]
RL_ErrMessage429 == [data |-> 0, statusCode |-> 0, message |-> <<"status", "429">>]
RL_ErrStatus429 == [data |-> 0, statusCode |-> 429, message |-> <<"Too", "Many", "Requests">>]
RL_ErrOther == [data |-> 500, statusCode |-> 500, message |-> <<"timeout">>]
RL_Errors == {RL_ErrData429, RL_ErrOverlimit, RL_ErrMessage429, RL_ErrStatus429, RL_ErrOther}

\* message?.includes(marker), a message being its words
Includes(message, marker) == \E i \in 1..Len(message) : message[i] = marker

\* isRateLimit in execute's catch block
IsRateLimitShaped(error) ==
    \/ error.data = 429
    \/ Includes(error.message, "rate-overlimit")
    \/ Includes(error.message, "429")
    \/ error.statusCode = 429

\* how the catch block's test sorts an error
ErrorKind(error) == IF IsRateLimitShaped(error) THEN "rate-limit" ELSE "other"

RLCalls == 1..MaxRLCalls
\* the logical tasks that call execute; each awaits its call before the next
Tasks == {"metadata", "broadcast"}
Drains == 1..MaxDrains
NoResult == [kind |-> "none", error |-> RL_Ok]
\* lastError is written by the catch block and read by nothing that runs (the
\* loop returns or throws before line 80), so a call does not carry it
NewCall ==
    [pc |-> "new", attempt |-> 0, wake |-> 0, invocations |-> 0, kinds |-> {},
     result |-> NoResult]
NoDrain == [pc |-> "idle", cur |-> 0]
\* Date.now() when the run starts: far from lastRequestTime = 0
Epoch == Limiter.maxDelayMs
RL_Quantum == Limiter.throttleDelayMs \div 2
\* the values Math.random() takes in the calls that are followed
RL_Samples == {JitterSteps - 1}

\* const result = await fn(): the operation is called.  The continuation of
\* an await on a settled promise runs in the same turn of the event loop,
\* before any timer or I/O event, so it is taken with the step that settles it.
RL_CallFn(rec) == [rec EXCEPT !.pc = "fn", !.wake = 0, !.invocations = @ + 1]

\* await this.waitForThrottle(): sleep for what is missing of throttleDelayMs
\* since lastRequestTime, or go on at once
WaitForThrottle(rec) ==
    LET timeSinceLastRequest == rlNow - lastRequestTime
    IN  IF timeSinceLastRequest < Limiter.throttleDelayMs
        THEN [rec EXCEPT !.pc = "throttle",
                         !.wake = rlNow + (Limiter.throttleDelayMs - timeSinceLastRequest)]
        ELSE RL_CallFn(rec)

\* calls are made in index order
RL_NextCall(c) == rlCall[c].pc = "new" /\ \A d \in RLCalls : d < c => rlCall[d].pc # "new"

\* the execute calls that have not returned or thrown
RL_Pending == {c \in RLCalls : rlCall[c].pc \notin {"new", "done"}}

\* execute(fn) is called by a task that awaits no call of its own: attempt 0
\* reaches waitForThrottle
RL_Execute(c) ==
    /\ instance = "execute"
    /\ RL_NextCall(c)
    /\ Cardinality(RL_Pending) < Cardinality(Tasks)
    /\ rlCall' = [rlCall EXCEPT ![c] = WaitForThrottle(rlCall[c])]
    /\ UNCHANGED <<RL_Frame, rlNow, lastRequestTime, requestQueue, isProcessingQueue,
                   drain, rlSteps>>

\* the throttle timer fires: waitForThrottle returns and fn() is called
RL_ThrottleElapsed(c) ==
    /\ rlCall[c].pc = "throttle"
    /\ rlNow >= rlCall[c].wake
    /\ rlCall' = [rlCall EXCEPT ![c] = RL_CallFn(@)]
    /\ UNCHANGED <<RL_Frame, rlNow, lastRequestTime, requestQueue, isProcessingQueue,
                   drain, rlSteps>>

\* mutant: the last attempt is one later
OutOfRetries_OneMore(attempt) == attempt = Limiter.maxRetries + 1

\* attempt === this.maxRetries
OutOfRetries(attempt) == attempt = Limiter.maxRetries

\* mutant: every error is retried
GivesUp_Never(error, attempt) == OutOfRetries(attempt)

\* !isRateLimit || attempt === this.maxRetries
GivesUp(error, attempt) == ~IsRateLimitShaped(error) \/ OutOfRetries(attempt)

\* await fn() settles: the result is returned, or the catch block runs
RL_Settle(c) ==
    /\ rlCall[c].pc = "fn"
    /\ \/ /\ lastRequestTime' = rlNow
          /\ rlCall' = [rlCall EXCEPT ![c].pc = "done",
                                      ![c].result = [kind |-> "returned", error |-> RL_Ok]]
       \/ \E error \in RL_Errors :
             /\ UNCHANGED lastRequestTime
             /\ IF GivesUp(error, rlCall[c].attempt)
                THEN rlCall' = [rlCall EXCEPT ![c].pc = "done",
                                             ![c].kinds = @ \cup {ErrorKind(error)},
                                             ![c].result = [kind |-> "threw", error |-> error]]
                ELSE \E r \in RL_Samples :
                        LET delay == CalculateBackoffDelay(Limiter, rlCall[c].attempt, r)
                        IN  rlCall' = [rlCall EXCEPT ![c].pc = "backoff",
                                                     ![c].kinds = @ \cup {ErrorKind(error)},
                                                     ![c].wake = rlNow + Floor(delay)]
    /\ UNCHANGED <<RL_Frame, rlNow, requestQueue, isProcessingQueue, drain, rlSteps>>

\* the backoff timer fires: the loop goes to attempt + 1 and waitForThrottle
RL_BackoffElapsed(c) ==
    /\ rlCall[c].pc = "backoff"
    /\ rlNow >= rlCall[c].wake
    /\ rlCall' = [rlCall EXCEPT ![c] =
                    WaitForThrottle([@ EXCEPT !.attempt = @ + 1, !.wake = 0])]
    /\ UNCHANGED <<RL_Frame, rlNow, lastRequestTime, requestQueue, isProcessingQueue,
                   drain, rlSteps>>

\* time passes: a quantum, or up to the next timer
RL_Advance ==
    /\ instance \in {"execute", "queue"}
    /\ rlSteps < MaxRLSteps
    /\ \E t \in {rlNow + RL_Quantum} \cup
                {rlCall[c].wake : c \in {d \in RLCalls : rlCall[d].pc \in {"throttle", "backoff"}}} :
          /\ t > rlNow
          /\ rlNow' = t
    /\ rlSteps' = rlSteps + 1
    /\ UNCHANGED <<RL_Frame, lastRequestTime, requestQueue, isProcessingQueue, rlCall, drain>>

\* mutant: no guard
RL_QueueGuard_Off == FALSE

\* if (this.isProcessingQueue) return
RL_QueueGuard == isProcessingQueue

\* the wrapper of call c runs: execute(fn) up to its first await
RL_Started(calls, c) == [calls EXCEPT ![c] = WaitForThrottle(calls[c])]

\* queue(fn): the wrapper is pushed and processQueue() is called, which returns
\* at the guard or takes the first wrapper off the queue and awaits it
RL_Queue(c) ==
    /\ instance = "queue"
    /\ RL_NextCall(c)
    /\ LET pushed == Append(requestQueue, c)
           queued == [rlCall EXCEPT ![c].pc = "queued"]
       IN  IF RL_QueueGuard
           THEN /\ requestQueue' = pushed
                /\ rlCall' = queued
                /\ UNCHANGED <<isProcessingQueue, drain>>
           ELSE \E l \in Drains :
                   /\ drain[l].pc = "idle"
                   /\ \A k \in Drains : k < l => drain[k].pc # "idle"
                   /\ isProcessingQueue' = TRUE
                   /\ requestQueue' = Tail(pushed)
                   /\ rlCall' = RL_Started(queued, Head(pushed))
                   /\ drain' = [drain EXCEPT ![l] = [pc |-> "await", cur |-> Head(pushed)]]
    /\ UNCHANGED <<RL_Frame, rlNow, lastRequestTime, rlSteps>>

\* await fn() of the drain loop resumes once the wrapper has settled: the next
\* wrapper is taken, or the loop ends
RL_DrainNext(l) ==
    /\ drain[l].pc = "await"
    /\ rlCall[drain[l].cur].pc = "done"
    /\ IF requestQueue # <<>>
       THEN /\ requestQueue' = Tail(requestQueue)
            /\ rlCall' = RL_Started(rlCall, Head(requestQueue))
            /\ drain' = [drain EXCEPT ![l].cur = Head(requestQueue)]
            /\ UNCHANGED isProcessingQueue
       ELSE /\ isProcessingQueue' = FALSE
            /\ drain' = [drain EXCEPT ![l] = NoDrain]
            /\ UNCHANGED <<requestQueue, rlCall>>
    /\ UNCHANGED <<RL_Frame, rlNow, lastRequestTime, rlSteps>>

----------------------------------------------------------------------------
----------------------------------------------------------------------------
\* GroupMetadataCache

CACHE_TTL_MS == 60 * 60 * 1000
CacheTtlHours == 1
DB_CACHE_TTL_MS == CacheTtlHours * 60 * 60 * 1000
CacheQuantum == CACHE_TTL_MS \div 2
CKeys == {"g1"}
CCalls == 1..MaxCacheCalls

\* getOrNull returned null
Null == [null |-> TRUE]
NewCacheCall ==
    [pc |-> "new", op |-> "get", jid |-> "g1", now |-> 0, result |-> Null, dbOps |-> 0,
     err |-> "none"]

\* mutant: an in-memory entry is never taken for fresh
IsFresh_Never(entry, at) == FALSE

\* now - inMemory.timestamp < this.CACHE_TTL_MS
IsFresh(entry, at) == at - entry.timestamp < CACHE_TTL_MS

\* the calls that have not returned
C_Pending == {c \in CCalls : cCall[c].pc \notin {"new", "done"}}

\* calls are made in index order, each by a task that has no call pending
C_NextCall(c) ==
    /\ cCall[c].pc = "new"
    /\ \A d \in CCalls : d < c => cCall[d].pc # "new"
    /\ Cardinality(C_Pending) < Cardinality(Tasks)

\* await this.ensureTablesExist() as far as its first await: nothing to wait
\* for once the tables were looked at, the probe query otherwise
EnsureTablesExist(next) == IF tablesInitialized THEN next ELSE "probe"

\* getOrNull(jid) up to its first await
C_GetOrNull(c, jid) ==
    /\ instance = "cache"
    /\ C_NextCall(c)
    /\ LET inMemory == IF jid \in DOMAIN inMemoryCache THEN inMemoryCache[jid] ELSE Null
           call == [cCall[c] EXCEPT !.op = "get", !.jid = jid, !.now = cNow]
       IN  IF inMemory # Null /\ IsFresh(inMemory, cNow)
           THEN cCall' = [cCall EXCEPT ![c] = [call EXCEPT !.pc = "done", !.now = 0,
                                                           !.result = inMemory.data]]
           ELSE IF dbAvailable
                THEN cCall' = [cCall EXCEPT ![c] =
                                  [call EXCEPT !.pc = EnsureTablesExist("query")]]
                ELSE cCall' = [cCall EXCEPT ![c] = [call EXCEPT !.pc = "done", !.now = 0]]
    /\ UNCHANGED <<C_Frame, cNow, inMemoryCache, tablesInitialized, dbAvailable,
                   groupsTable, dbHealth, cSteps>>

\* setFromApi(jid, metadata) up to its first await; the metadata fetched by
\* call c is version c
C_SetFromApi(c, jid) ==
    /\ instance = "cache"
    /\ C_NextCall(c)
    /\ LET result == [version |-> c, updatedAt |-> cNow, cached |-> FALSE]
           call == [cCall[c] EXCEPT !.op = "set", !.jid = jid, !.now = cNow,
                                    !.result = result]
       IN  /\ inMemoryCache' = MapSet(inMemoryCache, jid, [data |-> result, timestamp |-> cNow])
           /\ IF dbAvailable
              THEN cCall' = [cCall EXCEPT ![c] =
                                [call EXCEPT !.pc = EnsureTablesExist("insert")]]
              ELSE cCall' = [cCall EXCEPT ![c] = [call EXCEPT !.pc = "done", !.now = 0]]
    /\ UNCHANGED <<C_Frame, cNow, tablesInitialized, dbAvailable, groupsTable, dbHealth,
                   cSteps>>

\* mutant: a failed probe leaves the database marked available
C_AfterProbeError_Available == TRUE

\* catch (error) of ensureTablesExist: this.dbAvailable = false on either branch
C_AfterProbeError == FALSE

\* the probe of ensureTablesExist settles, and the caller goes on
C_ProbeSettles(c) ==
    /\ cCall[c].pc = "probe"
    /\ tablesInitialized' = TRUE
    /\ IF dbHealth = "ok"
       THEN /\ dbAvailable' = TRUE
            /\ cCall' = [cCall EXCEPT ![c].dbOps = @ + 1,
                                      ![c].pc = IF cCall[c].op = "get" THEN "query"
                                                ELSE "insert"]
       ELSE /\ dbAvailable' = C_AfterProbeError
            /\ cCall' = [cCall EXCEPT ![c].dbOps = @ + 1, ![c].err = dbHealth,
                                      ![c].pc = IF C_AfterProbeError
                                                THEN IF cCall[c].op = "get" THEN "query"
                                                     ELSE "insert"
                                                ELSE "done",
                                      ![c].now = IF C_AfterProbeError THEN @ ELSE 0]
    /\ UNCHANGED <<C_Frame, cNow, inMemoryCache, groupsTable, dbHealth, cSteps>>

\* mutant: the catch block throws the error on to the caller
C_Caught_Rethrown == "threw"

\* catch (error) around the database statements of getOrNull and setFromApi:
\* the error is logged, and the call goes on to its return statement
C_Caught == "done"

\* catch (error): "does not exist" or 42P01 marks the database unavailable
C_AfterDbError == IF dbHealth = "missing" THEN FALSE ELSE dbAvailable

\* db.query.groups.findFirst({where: eq(groups.jid, jid)}) settles
C_QuerySettles(c) ==
    /\ cCall[c].pc = "query"
    /\ LET jid == cCall[c].jid
           hit == /\ dbHealth = "ok"
                  /\ jid \in DOMAIN groupsTable
                  /\ cCall[c].now - groupsTable[jid].updatedAt < DB_CACHE_TTL_MS
           result == [version |-> groupsTable[jid].version,
                      updatedAt |-> groupsTable[jid].updatedAt, cached |-> TRUE]
       IN  IF hit
           THEN /\ inMemoryCache' = MapSet(inMemoryCache, jid,
                                           [data |-> result, timestamp |-> cCall[c].now])
                /\ cCall' = [cCall EXCEPT ![c].dbOps = @ + 1, ![c].pc = "done", ![c].now = 0,
                                          ![c].result = result]
                /\ UNCHANGED dbAvailable
           ELSE /\ cCall' = [cCall EXCEPT ![c].dbOps = @ + 1, ![c].now = 0,
                                          ![c].pc = IF dbHealth = "ok" THEN "done"
                                                    ELSE C_Caught,
                                          ![c].err = IF dbHealth = "ok" THEN @ ELSE dbHealth]
                /\ dbAvailable' = IF dbHealth = "ok" THEN dbAvailable ELSE C_AfterDbError
                /\ UNCHANGED inMemoryCache
    /\ UNCHANGED <<C_Frame, cNow, tablesInitialized, groupsTable, dbHealth, cSteps>>

\* db.insert(groups).values(...) settles: done, or on a duplicate key the
\* update is sent, or the outer catch block runs
C_InsertSettles(c) ==
    /\ cCall[c].pc = "insert"
    /\ LET jid == cCall[c].jid
           row == [version |-> cCall[c].result.version,
                   updatedAt |-> cCall[c].result.updatedAt]
       IN  IF dbHealth = "ok"
           THEN IF jid \in DOMAIN groupsTable
                THEN /\ cCall' = [cCall EXCEPT ![c].dbOps = @ + 1, ![c].pc = "update"]
                     /\ UNCHANGED <<groupsTable, dbAvailable>>
                ELSE /\ groupsTable' = MapSet(groupsTable, jid, row)
                     /\ cCall' = [cCall EXCEPT ![c].dbOps = @ + 1, ![c].pc = "done", ![c].now = 0]
                     /\ UNCHANGED dbAvailable
           ELSE /\ cCall' = [cCall EXCEPT ![c].dbOps = @ + 1, ![c].pc = C_Caught,
                                          ![c].now = 0, ![c].err = dbHealth]
                /\ dbAvailable' = C_AfterDbError
                /\ UNCHANGED groupsTable
    /\ UNCHANGED <<C_Frame, cNow, inMemoryCache, tablesInitialized, dbHealth, cSteps>>

\* db.update(groups).set(...).where(eq(groups.jid, jid)) settles
C_UpdateSettles(c) ==
    /\ cCall[c].pc = "update"
    /\ LET jid == cCall[c].jid
           row == [version |-> cCall[c].result.version,
                   updatedAt |-> cCall[c].result.updatedAt]
       IN  IF dbHealth = "ok"
           THEN /\ groupsTable' = IF jid \in DOMAIN groupsTable
                                  THEN MapSet(groupsTable, jid, row) ELSE groupsTable
                /\ UNCHANGED dbAvailable
           ELSE /\ dbAvailable' = C_AfterDbError
                /\ UNCHANGED groupsTable
    /\ cCall' = [cCall EXCEPT ![c].dbOps = @ + 1, ![c].now = 0,
                              ![c].pc = IF dbHealth = "ok" THEN "done" ELSE C_Caught,
                              ![c].err = IF dbHealth = "ok" THEN @ ELSE dbHealth]
    /\ UNCHANGED <<C_Frame, cNow, inMemoryCache, tablesInitialized, dbHealth, cSteps>>

\* invalidate(jid)
C_Invalidate(jid) ==
    /\ instance = "cache"
    /\ jid \in DOMAIN inMemoryCache
    /\ inMemoryCache' = MapDelete(inMemoryCache, jid)
    /\ UNCHANGED <<C_Frame, cNow, tablesInitialized, dbAvailable, groupsTable, dbHealth,
                   cCall, cSteps>>

\* invalidateAll()
C_InvalidateAll ==
    /\ instance = "cache"
    /\ inMemoryCache # <<>>
    /\ inMemoryCache' = <<>>
    /\ UNCHANGED <<C_Frame, cNow, tablesInitialized, dbAvailable, groupsTable, dbHealth,
                   cCall, cSteps>>

\* the cleanup interval fires
C_Cleanup ==
    /\ instance = "cache"
    /\ \E k \in DOMAIN inMemoryCache : cNow - inMemoryCache[k].timestamp > CACHE_TTL_MS
    /\ inMemoryCache' = [jid \in {k \in DOMAIN inMemoryCache :
                                     ~(cNow - inMemoryCache[k].timestamp > CACHE_TTL_MS)}
                           |-> inMemoryCache[jid]]
    /\ UNCHANGED <<C_Frame, cNow, tablesInitialized, dbAvailable, groupsTable, dbHealth,
                   cCall, cSteps>>

\* time passes
C_Advance ==
    /\ instance = "cache"
    /\ cSteps < MaxCacheSteps
    /\ cNow' = cNow + CacheQuantum
    /\ cSteps' = cSteps + 1
    /\ UNCHANGED <<C_Frame, inMemoryCache, tablesInitialized, dbAvailable, groupsTable,
                   dbHealth, cCall>>

\* the database starts or stops answering, or its tables come and go
C_HealthChanges ==
    /\ instance = "cache"
    /\ dbHealth' \in {"ok", "missing", "down"} \ {dbHealth}
    /\ groupsTable' = IF dbHealth' = "missing" THEN <<>> ELSE groupsTable
    /\ UNCHANGED <<C_Frame, cNow, inMemoryCache, tablesInitialized, dbAvailable, cCall,
                   cSteps>>

----------------------------------------------------------------------------
\* EphemeralAdsService

EphQuantum == 60 * 1000
TtlMinutes == {1, 2}
AdJids == {"grpA", "grpB"}
Passes == 1..MaxPasses
\* the array loaded at construction, and the remainingAds array of each pass
ArrayIds == 0..MaxPasses

IdlePass == [pc |-> "idle", now |-> 0, iter |-> 0, idx |-> 0, remainingAds |-> <<>>]

\* const expiryTime = ad.sentAt + (ad.ttlMinutes * 60 * 1000); now >= expiryTime
Expired(ad, at) == at >= ad.sentAt + (ad.ttlMinutes * 60 * 1000)

\* saveAds()
SaveAds(list) == list

\* trackAd(jid, messageKey, ttlMinutes); hasKey is false for a missing messageKey
E_TrackAd(jid, hasKey, ttlMinutes) ==
    /\ instance = "ads"
    /\ nAds < MaxAds
    /\ nAds' = nAds + 1
    /\ IF ~hasKey
       THEN UNCHANGED <<adsArrays, persisted, tracked>>
       ELSE LET ad == [id |-> nAds + 1, jid |-> jid, messageKey |-> nAds + 1,
                       sentAt |-> eNow, ttlMinutes |-> ttlMinutes]
                list == Append(adsArrays[adsRef], ad)
            IN  /\ adsArrays' = [adsArrays EXCEPT ![adsRef] = list]
                /\ persisted' = SaveAds(list)
                /\ tracked' = Append(tracked, ad)
    /\ UNCHANGED <<E_Frame, eNow, client, adsRef, deleteCalls, deleteFailed, pass, eSteps>>

\* setClient(client)
E_SetClient ==
    /\ instance = "ads"
    /\ ~client
    /\ client' = TRUE
    /\ UNCHANGED <<E_Frame, eNow, adsArrays, adsRef, persisted, deleteCalls, deleteFailed,
                   tracked, pass, nAds, eSteps>>

\* the for loop of runCleanup from index idx of the array it iterates up to
\* its next deleteMessage call or the end of the array
RECURSIVE Scan(_, _, _, _)
Scan(list, idx, remainingAds, at) ==
    IF idx > Len(list) THEN [idx |-> idx, remainingAds |-> remainingAds, atEnd |-> TRUE]
    ELSE IF Expired(list[idx], at)
         THEN [idx |-> idx, remainingAds |-> remainingAds, atEnd |-> FALSE]
         ELSE Scan(list, idx + 1, Append(remainingAds, list[idx]), at)

\* one more deleteMessage(ad.jid, ad.messageKey) call
Called(calls, ad) ==
    LET key == <<ad.jid, ad.messageKey>>
    IN  IF key \in DOMAIN calls THEN [calls EXCEPT ![key] = @ + 1]
        ELSE MapSet(calls, key, 1)

\* runCleanup from index idx on, as far as its next await or its return
E_Run(p, rec, idx) ==
    LET list == adsArrays[rec.iter]
        scan == Scan(list, idx, rec.remainingAds, rec.now)
    IN  IF ~scan.atEnd
        THEN /\ pass' = [pass EXCEPT ![p] = [rec EXCEPT !.pc = "deleting",
                                                        !.idx = scan.idx,
                                                        !.remainingAds = scan.remainingAds]]
             /\ deleteCalls' = Called(deleteCalls, list[scan.idx])
             /\ UNCHANGED <<adsArrays, adsRef, persisted>>
        ELSE /\ pass' = [pass EXCEPT ![p] = [IdlePass EXCEPT !.pc = "done"]]
             /\ UNCHANGED deleteCalls
             /\ IF Len(adsArrays[adsRef]) # Len(scan.remainingAds)
                THEN /\ adsArrays' = [adsArrays EXCEPT ![p] = scan.remainingAds]
                     /\ adsRef' = p
                     /\ persisted' = SaveAds(scan.remainingAds)
                ELSE UNCHANGED <<adsArrays, adsRef, persisted>>

\* runCleanup(), called by the interval timer or directly
E_RunCleanup(p) ==
    /\ instance = "ads"
    /\ pass[p].pc = "idle"
    /\ \A q \in Passes : q < p => pass[q].pc # "idle"
    /\ IF ~client
       THEN /\ pass' = [pass EXCEPT ![p].pc = "skipped"]
            /\ UNCHANGED <<adsArrays, adsRef, persisted, deleteCalls>>
       ELSE E_Run(p, [pass[p] EXCEPT !.now = eNow, !.iter = adsRef], 1)
    /\ UNCHANGED <<E_Frame, eNow, client, deleteFailed, tracked, nAds, eSteps>>

\* await this.client.deleteMessage(...) settles, with success or with an error
\* that the catch block logs
E_DeleteSettles(p, ok) ==
    /\ pass[p].pc = "deleting"
    /\ LET ad == adsArrays[pass[p].iter][pass[p].idx]
       IN  deleteFailed' = IF ok THEN deleteFailed
                           ELSE deleteFailed \cup {<<ad.jid, ad.messageKey>>}
    /\ E_Run(p, pass[p], pass[p].idx + 1)
    /\ UNCHANGED <<E_Frame, eNow, client, tracked, nAds, eSteps>>

\* time passes
E_Advance ==
    /\ instance = "ads"
    /\ eSteps < MaxEphSteps
    /\ eNow' = eNow + EphQuantum
    /\ eSteps' = eSteps + 1
    /\ UNCHANGED <<E_Frame, client, adsArrays, adsRef, persisted, deleteCalls, deleteFailed,
                   tracked, pass, nAds>>

----------------------------------------------------------------------------
\* cleanup() of MessageQueueService and of ReportQueueService

\* what cleanup() and a long wait leave alone
K_Frame == <<instance, bcv, notices, bufv, rlv, cachev, ephv, workv, purev>>

\* 24 * 60 * 60 * 1000 and 7 * 24 * 60 * 60 * 1000
MQ_Retention == 24 * 60 * 60 * 1000
RQ_Retention == 7 * 24 * 60 * 60 * 1000

NoCleanup == [pc |-> "idle", cutoff |-> 0]

\* the row is gone from the table
Deleted(row) == [row EXCEPT !.status = "deleted"]

\* mutant: the delete takes failed jobs too, by their age
MQ_CleanupWhere_Failed(row, cutoff) ==
    \/ row.status = "completed" /\ row.processedAt # -1 /\ row.processedAt < cutoff
    \/ row.status = "failed" /\ row.createdAt <= cutoff

\* where status = 'completed' and processedAt < oneDayAgo
MQ_CleanupWhere(row, cutoff) ==
    row.status = "completed" /\ row.processedAt # -1 /\ row.processedAt < cutoff

\* where status = 'completed' (the condition on updatedAt is commented out)
RQ_CleanupWhere(row, cutoff) == row.status = "completed"

\* MessageQueueService.cleanup() up to its await
MQ_Cleanup ==
    /\ instance = "message"
    /\ cleanupCall.pc = "idle"
    /\ cleanupCall' = [pc |-> "delete", cutoff |-> now - MQ_Retention]
    /\ UNCHANGED <<K_Frame, now, mqv, rqv, skipped, noKey, escaped, jumps>>

\* its delete takes effect
MQ_CleanupDeletes ==
    /\ instance = "message"
    /\ cleanupCall.pc = "delete"
    /\ mq' = [i \in 1..Len(mq) |-> IF MQ_CleanupWhere(mq[i], cleanupCall.cutoff)
                                   THEN Deleted(mq[i]) ELSE mq[i]]
    /\ cleanupCall' = NoCleanup
    /\ UNCHANGED <<K_Frame, now, rqv, enq, isProcessing, tick, att, fed, procPayload,
                   overlap, skipped, noKey, escaped, jumps>>

\* ReportQueueService.cleanup() up to its await
RQ_Cleanup ==
    /\ instance = "report"
    /\ cleanupCall.pc = "idle"
    /\ cleanupCall' = [pc |-> "delete", cutoff |-> now - RQ_Retention]
    /\ UNCHANGED <<K_Frame, now, mqv, rqv, skipped, noKey, escaped, jumps>>

\* its delete takes effect
RQ_CleanupDeletes ==
    /\ instance = "report"
    /\ cleanupCall.pc = "delete"
    /\ rq' = [i \in 1..Len(rq) |-> IF RQ_CleanupWhere(rq[i], cleanupCall.cutoff)
                                   THEN Deleted(rq[i]) ELSE rq[i]]
    /\ cleanupCall' = NoCleanup
    /\ UNCHANGED <<K_Frame, now, mqv, rIsProcessing, rtick, ratt, skipped, noKey, escaped, jumps>>

\* no enqueue, tick or cleanup call is in flight
Q_Quiet ==
    /\ \A c \in Calls : enq[c].pc \in {"new", "done"}
    /\ \A t \in Ticks : tick[t].pc = "idle" /\ rtick[t].pc = "idle"
    /\ cleanupCall.pc = "idle"

\* half a retention window passes; the calls in flight, which take seconds,
\* have returned by then
Q_Wait ==
    /\ Q_Quiet
    /\ jumps < MaxJumps
    /\ jumps' = jumps + 1
    /\ now' = now + (IF instance = "message" THEN MQ_Retention ELSE RQ_Retention) \div 2
    /\ UNCHANGED <<K_Frame, mqv, rqv, skipped, noKey, escaped, cleanupCall>>

----------------------------------------------------------------------------
\* BackgroundWorker

TimerKinds == {"messageQueue", "reportQueue", "cleanup"}
NoIntervals == [k \in TimerKinds |-> 0]
\* the handles setInterval can return in a run: three for each start
Handles == 1..(3 * MaxWorkerOps)

\* setInterval for each of the three callbacks, in the order of the code:
\* the k-th call returns handle base + k
NewHandles(base) == [k \in TimerKinds |->
                        base + (CASE k = "messageQueue" -> 1
                                  [] k = "reportQueue" -> 2
                                  [] k = "cleanup" -> 3)]

\* mutant: start does not look at isRunning
AlreadyRunning_Never == FALSE

\* if (this.isRunning) { ...; return; }
AlreadyRunning == isRunning

\* start()
W_Start ==
    /\ instance = "worker"
    /\ wOps < MaxWorkerOps
    /\ wOps' = wOps + 1
    /\ wLast' = "start"
    /\ IF AlreadyRunning
       THEN UNCHANGED <<isRunning, intervals, armedTimers, nextHandle>>
       ELSE /\ isRunning' = TRUE
            /\ intervals' = NewHandles(nextHandle)
            /\ armedTimers' = armedTimers \cup
                                 {[handle |-> NewHandles(nextHandle)[k], callback |-> k] :
                                     k \in TimerKinds}
            /\ nextHandle' = nextHandle + 3
    /\ UNCHANGED <<W_Frame, fired>>

\* clearInterval(handle)
ClearInterval(set, handle) == {t \in set : t.handle # handle}

\* the three if (handle) { clearInterval(handle); ... } of stop, one after the
\* other
RECURSIVE ClearAll(_, _)
ClearAll(set, kinds) ==
    IF kinds = {} THEN set
    ELSE LET k == CHOOSE x \in kinds : TRUE
         IN  ClearAll(IF intervals[k] # 0 THEN ClearInterval(set, intervals[k]) ELSE set,
                      kinds \ {k})

\* stop()
W_Stop ==
    /\ instance = "worker"
    /\ wOps < MaxWorkerOps
    /\ wOps' = wOps + 1
    /\ wLast' = "stop"
    /\ IF ~isRunning
       THEN UNCHANGED <<isRunning, intervals, armedTimers>>
       ELSE /\ armedTimers' = ClearAll(armedTimers, TimerKinds)
            /\ intervals' = NoIntervals
            /\ isRunning' = FALSE
    /\ UNCHANGED <<W_Frame, nextHandle, fired>>

\* an armed interval timer fires and its callback runs
W_Fire(t) ==
    /\ instance = "worker"
    /\ t \in armedTimers
    /\ fired[t.callback] < MaxFired
    /\ fired' = [fired EXCEPT ![t.callback] = @ + 1]
    /\ UNCHANGED <<W_Frame, isRunning, intervals, armedTimers, nextHandle, wOps, wLast>>

----------------------------------------------------------------------------
\* MarketingService: the broadcast loop of handleAdSlot and handleFactSlot

\* setTimeout(resolve, 2000)
INTER_SEND_DELAY == 2000
BcQuantum == INTER_SEND_DELAY \div 2
BcGroups == {"g1", "g2", "g3"}
\* what getBroadcastGroups can return: the groups the account is in, each once
GroupLists ==
    {g \in UNION {[1..n -> BcGroups] : n \in 0..MaxGroups} :
        \A i, j \in 1..Len(g) : g[i] = g[j] => i = j}

NoBroadcast == [pc |-> "idle", kind |-> "ad", groups |-> <<>>, idx |-> 0, due |-> 0]

\* groups.indexOf(groupJid), counted from 0
IndexOf(groups, groupJid) ==
    (CHOOSE i \in 1..Len(groups) :
        groups[i] = groupJid /\ \A j \in 1..(i - 1) : groups[j] # groupJid) - 1

\* the body of the for loop for the group at idx as far as its first await:
\* client.sendText / sendImage is called; past the last group the handler ends
BC_Iterate(rec, idx, attempts) ==
    IF idx > Len(rec.groups)
    THEN /\ broadcast' = [rec EXCEPT !.pc = "done", !.idx = idx]
         /\ sendAttempts' = attempts
    ELSE /\ broadcast' = [rec EXCEPT !.pc = "sending", !.idx = idx]
         /\ sendAttempts' = Append(attempts, [group |-> rec.groups[idx], at |-> bcNow,
                                              outcome |-> "pending"])

\* handleAdSlot / handleFactSlot from the point where getBroadcastGroups has
\* returned `groups`
BC_HandleSlot(kind, groups) ==
    /\ instance = "broadcast"
    /\ broadcast.pc = "idle"
    /\ IF Len(groups) = 0
       THEN /\ broadcast' = [NoBroadcast EXCEPT !.pc = "done", !.kind = kind]
            /\ UNCHANGED sendAttempts
       ELSE BC_Iterate([NoBroadcast EXCEPT !.kind = kind, !.groups = groups], 1,
                       sendAttempts)
    /\ UNCHANGED <<BC_Frame, bcNow, bcSteps>>

\* if (groups.indexOf(groupJid) < groups.length - 1)
NeedsDelay(groups, groupJid) == IndexOf(groups, groupJid) < Len(groups) - 1

\* the send settles.  On success the delay timer is set unless the group is the
\* last one; on an error the catch block logs it and the loop goes on
BC_SendSettles(ok) ==
    /\ instance = "broadcast"
    /\ broadcast.pc = "sending"
    /\ LET idx == broadcast.idx
           attempts == [sendAttempts EXCEPT ![Len(sendAttempts)].outcome =
                           IF ok THEN "sent" ELSE "failed"]
       IN  IF ok /\ NeedsDelay(broadcast.groups, broadcast.groups[idx])
           THEN /\ broadcast' = [broadcast EXCEPT !.pc = "delay",
                                                  !.due = bcNow + INTER_SEND_DELAY]
                /\ sendAttempts' = attempts
           ELSE BC_Iterate(broadcast, idx + 1, attempts)
    /\ UNCHANGED <<BC_Frame, bcNow, bcSteps>>

\* the delay timer fires and the loop goes on with the next group
BC_DelayElapsed ==
    /\ instance = "broadcast"
    /\ broadcast.pc = "delay"
    /\ bcNow >= broadcast.due
    /\ BC_Iterate(broadcast, broadcast.idx + 1, sendAttempts)
    /\ UNCHANGED <<BC_Frame, bcNow, bcSteps>>

\* time passes
BC_Advance ==
    /\ instance = "broadcast"
    /\ bcSteps < MaxBcSteps
    /\ bcNow' = bcNow + BcQuantum
    /\ bcSteps' = bcSteps + 1
    /\ UNCHANGED <<BC_Frame, broadcast, sendAttempts>>

\* no function called yet
NoArg == [none |-> TRUE]
NoRes == [none |-> TRUE]

\* the state after construction of every component
Start ==
    /\ now = 0
    /\ mq = <<>>
    /\ enq = [c \in Calls |-> NoCall]
    /\ isProcessing = FALSE
    /\ tick = [t \in Ticks |-> Idle]
    /\ att = <<>>
    /\ fed = <<>>
    /\ procPayload = [i \in Calls |-> <<>>]
    /\ overlap = [j \in Jids |-> FALSE]
    /\ rq = <<>>
    /\ rIsProcessing = FALSE
    /\ rtick = [t \in Ticks |-> Idle]
    /\ ratt = <<>>
    /\ skipped = FALSE
    /\ noKey = FALSE
    /\ escaped = FALSE
    /\ clock = 0
    /\ buffers = <<>>
    /\ timers = <<>>
    /\ armed = {}
    /\ nAdds = 0
    /\ lastAdd = [k \in BKeys |-> [at |-> 0, debounce |-> 0]]
    /\ lastCb = "none"
    /\ hist = [k \in BKeys |-> <<>>]
    /\ rlNow = Epoch
    /\ lastRequestTime = 0
    /\ requestQueue = <<>>
    /\ isProcessingQueue = FALSE
    /\ rlCall = [c \in RLCalls |-> NewCall]
    /\ drain = [l \in Drains |-> NoDrain]
    /\ rlSteps = 0
    /\ cNow = 0
    /\ inMemoryCache = <<>>
    /\ tablesInitialized = FALSE
    /\ dbAvailable = TRUE
    /\ cCall = [c \in CCalls |-> NewCacheCall]
    /\ cSteps = 0
    /\ eNow = 0
    /\ client = FALSE
    /\ adsRef = 0
    /\ deleteCalls = <<>>
    /\ deleteFailed = {}
    /\ pass = [p \in Passes |-> IdlePass]
    /\ nAds = 0
    /\ eSteps = 0
    /\ notices = <<>>
    /\ cleanupCall = NoCleanup
    /\ jumps = 0
    /\ isRunning = FALSE
    /\ intervals = NoIntervals
    /\ armedTimers = {}
    /\ nextHandle = 0
    /\ fired = [k \in TimerKinds |-> 0]
    /\ wOps = 0
    /\ wLast = "none"
    /\ fnRes = NoRes
    /\ bcNow = 0
    /\ broadcast = NoBroadcast
    /\ sendAttempts = <<>>
    /\ bcSteps = 0

\* the cache is not in use: its database is there and empty
NoCache == dbHealth = "ok" /\ groupsTable = <<>>

\* the ad tracker is not in use: nothing was tracked
NoAds == adsArrays = [a \in ArrayIds |-> <<>>] /\ persisted = <<>> /\ tracked = <<>>

Init == Start /\ instance \in {"message", "report"} /\ fnArg = NoArg /\ NoCache /\ NoAds

\* the two queues with a durable store whose calls succeed
QueueNext ==
    \/ \E c \in Calls : MQ_EnqueueCall(c)
    \/ \E c \in Calls : MQ_EnqueueSelect(c)
    \/ \E c \in Calls : MQ_EnqueueWrite(c)
    \/ \E t \in Ticks : MQ_ProcessQueue(t)
    \/ \E t \in Ticks : MQ_SelectPending(t)
    \/ \E t \in Ticks : MQ_MarkProcessing(t)
    \/ \E t \in Ticks : MQ_GetContact(t)
    \/ \E t \in Ticks : MQ_Generate(t)
    \/ \E t \in Ticks : MQ_MarkCompleted(t)
    \/ \E t \in Ticks : MQ_HandleError(t)
    \/ RQ_Enqueue
    \/ \E t \in Ticks : RQ_ProcessReports(t)
    \/ \E t \in Ticks : RQ_SelectPending(t)
    \/ \E t \in Ticks : RQ_MarkProcessing(t)
    \/ \E t \in Ticks : RQ_Step(t)
    \/ \E t \in Ticks : RQ_Generate(t)
    \/ \E t \in Ticks : RQ_MarkCompleted(t)
    \/ \E t \in Ticks : RQ_HandleError(t)
    \/ \E t \in Ticks : RQ_NotifyFailed(t)

SpecQueue == Init /\ [][QueueNext]_vars

\* the two queues with a durable store whose calls can reject
QueueFaultNext ==
    \/ QueueNext
    \/ \E t \in Ticks : MQ_StoreThrows(t)
    \/ \E t \in Ticks : RQ_StoreThrows(t)

SpecQueueFault == Init /\ [][QueueFaultNext]_vars

\* the two queues with the hourly cleanup() and long waits
RetentionNext ==
    \/ QueueNext
    \/ MQ_Cleanup
    \/ MQ_CleanupDeletes
    \/ RQ_Cleanup
    \/ RQ_CleanupDeletes
    \/ Q_Wait

SpecRetention == Init /\ [][RetentionNext]_vars

\* the message buffer
BufferInit == Start /\ instance = "buffer" /\ fnArg = NoArg /\ NoCache /\ NoAds

BufferNext ==
    \/ \E jid \in BKeys : B_Add(jid)
    \/ B_TimerFires
    \/ \E jid \in BKeys : B_Flush(jid)
    \/ B_Advance

SpecBuffer == BufferInit /\ [][BufferNext]_vars

\* time goes on past the horizon of the run for as long as a timer is pending
B_Elapse ==
    /\ instance = "buffer"
    /\ clock >= MaxSteps * Quantum
    /\ \E tm \in armed : tm.due > clock
    /\ clock' = clock + Quantum
    /\ UNCHANGED <<B_Frame, buffers, timers, armed, nAdds, lastAdd, lastCb, hist>>

\* the timer callback of one key runs
B_TimerFiresFor(jid) == B_TimerFires /\ hist'[jid] # hist[jid]

\* the add calls of the run arrive up to its horizon and then stop
B_AddInTime(jid) == B_Add(jid) /\ clock <= MaxSteps * Quantum

BufferLiveNext ==
    \/ \E jid \in BKeys : B_AddInTime(jid)
    \/ B_TimerFires
    \/ \E jid \in BKeys : B_Flush(jid)
    \/ B_Advance
    \/ B_Elapse

\* Node runs a timer's callback once it is due, and time does not stop
B_Fair ==
    /\ WF_vars(B_Advance)
    /\ WF_vars(B_Elapse)
    /\ \A jid \in BKeys : WF_vars(B_TimerFiresFor(jid))

FairSpecBuffer == BufferInit /\ [][BufferLiveNext]_vars /\ B_Fair

\* one RateLimiter, called directly (execute) or through its queue
LimiterInit == Start /\ instance \in {"execute", "queue"} /\ fnArg = NoArg /\ NoCache /\ NoAds

LimiterNext ==
    \/ \E c \in RLCalls : RL_Execute(c)
    \/ \E c \in RLCalls : RL_Queue(c)
    \/ \E c \in RLCalls : RL_ThrottleElapsed(c)
    \/ \E c \in RLCalls : RL_Settle(c)
    \/ \E c \in RLCalls : RL_BackoffElapsed(c)
    \/ \E l \in Drains : RL_DrainNext(l)
    \/ RL_Advance

SpecLimiter == LimiterInit /\ [][LimiterNext]_vars

\* the cache of the process, over a database that is healthy, down or without
\* its tables, and that a previous run may have left a row in
CacheInit ==
    /\ Start
    /\ instance = "cache"
    /\ fnArg = NoArg
    /\ NoAds
    /\ dbHealth \in {"ok", "missing", "down"}
    /\ groupsTable \in {<<>>} \cup
                       {[jid \in {"g1"} |-> [version |-> 0, updatedAt |-> 0]] : x \in
                          {h \in {dbHealth} : h # "missing"}}

CacheNext ==
    \/ \E c \in CCalls, jid \in CKeys : C_GetOrNull(c, jid)
    \/ \E c \in CCalls, jid \in CKeys : C_SetFromApi(c, jid)
    \/ \E c \in CCalls : C_ProbeSettles(c)
    \/ \E c \in CCalls : C_QuerySettles(c)
    \/ \E c \in CCalls : C_InsertSettles(c)
    \/ \E c \in CCalls : C_UpdateSettles(c)
    \/ \E jid \in CKeys : C_Invalidate(jid)
    \/ C_InvalidateAll
    \/ C_Cleanup
    \/ C_Advance
    \/ C_HealthChanges

SpecCache == CacheInit /\ [][CacheNext]_vars

\* one broadcast of MarketingService
BroadcastInit == Start /\ instance = "broadcast" /\ fnArg = NoArg /\ NoCache /\ NoAds

BroadcastNext ==
    \/ \E kind \in {"ad", "fact"}, groups \in GroupLists : BC_HandleSlot(kind, groups)
    \/ \E ok \in BOOLEAN : BC_SendSettles(ok)
    \/ BC_DelayElapsed
    \/ BC_Advance

SpecBroadcast == BroadcastInit /\ [][BroadcastNext]_vars

\* the ad tracker after construction: loadAds has read what an earlier run of
\* the process left in the file
AdsInit ==
    /\ Start
    /\ instance = "ads"
    /\ fnArg = NoArg
    /\ NoCache
    /\ persisted \in {<<>>, <<[id |-> 0, jid |-> "grpA", messageKey |-> 0, sentAt |-> 0,
                               ttlMinutes |-> 1]>>}
    /\ adsArrays = [a \in ArrayIds |-> IF a = 0 THEN persisted ELSE <<>>]
    /\ tracked = persisted

AdsNext ==
    \/ \E jid \in AdJids, hasKey \in BOOLEAN, ttl \in TtlMinutes : E_TrackAd(jid, hasKey, ttl)
    \/ E_SetClient
    \/ \E p \in Passes : E_RunCleanup(p)
    \/ \E p \in Passes, ok \in BOOLEAN : E_DeleteSettles(p, ok)
    \/ E_Advance

SpecAds == AdsInit /\ [][AdsNext]_vars

\* the BackgroundWorker after construction
WorkerInit == Start /\ instance = "worker" /\ fnArg = NoArg /\ NoCache /\ NoAds

WorkerNext ==
    \/ W_Start
    \/ W_Stop
    \/ \E h \in Handles, k \in TimerKinds : W_Fire([handle |-> h, callback |-> k])

SpecWorker == WorkerInit /\ [][WorkerNext]_vars

\* calculateBackoffDelay called as execute calls it: by one of the limiters,
\* for an attempt that has a retry left, with one value of Math.random()
BackoffInit ==
    /\ Start
    /\ instance = "backoff"
    /\ NoCache /\ NoAds
    /\ fnArg \in {a \in [cfg : Configs, attempt : 0..MaxAttempt, r : 0..(JitterSteps - 1)] :
                     a.attempt < a.cfg.maxRetries}

BO_CalculateBackoffDelay ==
    /\ instance = "backoff"
    /\ fnRes = NoRes
    /\ fnRes' = [delay |-> CalculateBackoffDelay(fnArg.cfg, fnArg.attempt, fnArg.r),
                 exponentialDelay |-> ExponentialDelay(fnArg.cfg, fnArg.attempt),
                 nextExponentialDelay |-> ExponentialDelay(fnArg.cfg, fnArg.attempt + 1)]
    /\ UNCHANGED <<P_Frame, fnArg>>

SpecBackoff == BackoffInit /\ [][BO_CalculateBackoffDelay]_vars

\* getAdaptiveDebounce asked about two numbers of active conversations; add
\* counts them after it created the accumulator, so there is at least one
DebounceInit ==
    /\ Start
    /\ instance = "debounce"
    /\ NoCache /\ NoAds
    /\ fnArg \in [n : 1..MaxActive, m : 1..MaxActive]

D_GetAdaptiveDebounce ==
    /\ instance = "debounce"
    /\ fnRes = NoRes
    /\ fnRes' = [dn |-> GetAdaptiveDebounce(fnArg.n), dm |-> GetAdaptiveDebounce(fnArg.m)]
    /\ UNCHANGED <<P_Frame, fnArg>>

SpecDebounce == DebounceInit /\ [][D_GetAdaptiveDebounce]_vars

----------------------------------------------------------------------------
\* Properties of the two queues

MQ_Rows == 1..Len(mq)
RQ_Rows == 1..Len(rq)
InFlight(t) == tick[t].pc # "idle"
RInFlight(t) == rtick[t].pc # "idle"
\* the ticks that hold row i as their `pending`
Holders(i) == {t \in Ticks : tick[t].pending.id = i}
RHolders(i) == {t \in Ticks : rtick[t].pending.id = i}
Elems(seq) == {seq[k] : k \in 1..Len(seq)}
\* the pending or processing jobs of a jid
NonTerminalJobs(j) ==
    {i \in MQ_Rows : mq[i].jid = j /\ mq[i].status \in {"pending", "processing"}}

\* C1 (as claimed): in every reachable state, under any interleaving of
\* enqueue calls with each other and with processQueue ticks, at most one
\* pending or processing job exists per jid.
C1_AtMostOneNonTerminalPerJid ==
    \A j \in Jids : Cardinality(NonTerminalJobs(j)) <= 1

\* C1 (amended): the same, for every jid whose enqueue calls never overlapped
\* (each call's read and write done before the next call for that jid starts),
\* under any interleaving with processQueue ticks and with calls for other jids.
C1_AtMostOneWhenCallsDoNotOverlap ==
    \A j \in Jids : ~overlap[j] => Cardinality(NonTerminalJobs(j)) <= 1

\* two calls for one jid, one after the other, ended in one non-terminal row
C1_Witness ==
    \E i \in MQ_Rows : /\ Len(fed[i]) >= 2
                       /\ ~overlap[mq[i].jid]
                       /\ NonTerminalJobs(mq[i].jid) = {i}

\* C2 (as claimed): no enqueued message is lost: every message an enqueue call
\* wrote to a job is in the payload read by the attempt that completed the job.
C2_NoMessageLost ==
    \A i \in MQ_Rows :
        mq[i].status = "completed" => Elems(fed[i]) \subseteq Elems(procPayload[i])

\* C3: an enqueue that finds a non-terminal job for its jid, no other call for
\* that jid overlapping, adds no row and changes only that job's payload, which
\* becomes the earlier calls' messages followed by its own, in order.
C3_MergeAppendsInPlace ==
    [][\A c \in Calls :
          (/\ enq[c].pc = "write"
           /\ enq'[c].pc = "done"
           /\ enq[c].existing.id # 0
           /\ ~overlap[enq[c].jid])
          => LET id == enq[c].existing.id IN
             /\ Len(mq') = Len(mq)
             /\ \A j \in MQ_Rows : j # id => mq'[j] = mq[j]
             /\ mq'[id].messageData = fed[id] \o enq[c].messages
             /\ mq'[id].status = mq[id].status
             /\ mq'[id].priority = mq[id].priority
             /\ mq'[id].retryCount = mq[id].retryCount
             /\ mq'[id].createdAt = mq[id].createdAt
             /\ mq'[id].jid = enq[c].jid]_vars

\* the second of two sequential calls has merged into the still pending job
C3_Witness ==
    \E i \in MQ_Rows : /\ mq[i].messageData = <<1, 2>>
                       /\ fed[i] = <<1, 2>>
                       /\ mq[i].status = "pending"
                       /\ ~overlap[mq[i].jid]
                       /\ Len(mq) = 1

\* C4: a job sees at most MAX_RETRIES attempts end in a non-rate-limit error:
\* while it is pending its retryCount is the number of such attempts (1, then
\* 2), with the third it becomes failed, and a failed job is never picked up.
C4_RetryCap ==
    /\ \A i \in MQ_Rows :
          /\ att[i] <= MAX_RETRIES
          /\ mq[i].status = "pending" => mq[i].retryCount = att[i] /\ att[i] < MAX_RETRIES
          /\ mq[i].status = "failed" => att[i] = MAX_RETRIES /\ Holders(i) = {}
          /\ (att[i] = MAX_RETRIES /\ Holders(i) = {}) => mq[i].status = "failed"
    /\ \A i \in RQ_Rows :
          /\ ratt[i] <= MAX_RETRIES
          /\ rq[i].status = "pending" => rq[i].retryCount = ratt[i] /\ ratt[i] < MAX_RETRIES
          /\ rq[i].status = "failed" =>
                /\ ratt[i] = MAX_RETRIES
                /\ \A t \in RHolders(i) : rtick[t].pc = "notifyFailed"
          /\ (ratt[i] = MAX_RETRIES /\ RHolders(i) = {}) => rq[i].status = "failed"

\* a job has failed after its third failed attempt
C4_Witness ==
    \E i \in MQ_Rows : mq[i].status = "failed" /\ att[i] = MAX_RETRIES

\* the state of a job no attempt on which ended in another error or in success
C5_RateLimitState ==
    /\ \A i \in MQ_Rows :
          (att[i] = 0 /\ mq[i].status # "completed") =>
              /\ mq[i].retryCount = 0
              /\ mq[i].status \in {"pending", "processing"}
              /\ mq[i].status = "processing" => Holders(i) # {}
    /\ \A i \in RQ_Rows :
          (ratt[i] = 0 /\ rq[i].status # "completed") =>
              /\ rq[i].retryCount = 0
              /\ rq[i].status \in {"pending", "processing"}
              /\ rq[i].status = "processing" => RHolders(i) # {}

\* what the catch block does with a rate-limit error
C5_RateLimitStep ==
    /\ \A t \in Ticks :
          (tick[t].pc = "catch" /\ IsRateLimit(tick[t].error) /\ tick'[t].pc = "idle")
          => LET id == tick[t].pending.id IN
             /\ mq[id].status = "processing"
             /\ mq'[id] = [mq[id] EXCEPT !.status = "pending"]
    /\ \A t \in Ticks :
          (rtick[t].pc = "catch" /\ IsRateLimit(rtick[t].error) /\ rtick'[t].pc = "idle")
          => LET id == rtick[t].pending.id IN
             /\ rq[id].status = "processing"
             /\ rq'[id] = [rq[id] EXCEPT !.status = "pending"]

\* C5: a job none of whose attempts ended in a non-rate-limit error or in
\* success keeps retryCount 0 and is pending, or processing while a tick holds
\* it, never failed; on every rate-limit error the catch block puts the job
\* from processing back to pending and changes nothing else of it.
C5_RateLimitNeverFails == []C5_RateLimitState /\ [][C5_RateLimitStep]_vars

\* the unit of work of a job never failed otherwise has raised the rate-limit
\* signal and the catch block is about to handle it
C5_Witness ==
    \E t \in Ticks :
        /\ tick[t].pc = "catch"
        /\ IsRateLimit(tick[t].error)
        /\ att[tick[t].pending.id] = 0
        /\ skipped

\* the select step of a tick
C6_Pick ==
    \A t \in Ticks :
        (tick[t].pc = "select" /\ tick'[t].pc = "mark") =>
            LET p == tick'[t].pending.id IN
            /\ mq[p].status = "pending"
            /\ \A j \in MQ_Rows :
                  (j # p /\ mq[j].status = "pending") =>
                      /\ mq[p].priority <= mq[j].priority
                      /\ mq[p].priority = mq[j].priority => mq[p].createdAt <= mq[j].createdAt

\* the step of a tick that marks its job processing
C6_Mark ==
    \A t \in Ticks :
        (tick[t].pc = "mark" /\ tick'[t].pc = "contact") =>
            /\ mq[tick[t].pending.id].status = "pending"
            /\ mq'[tick[t].pending.id].status = "processing"

C7_SingleFlight ==
    /\ Cardinality({t \in Ticks : InFlight(t)}) <= 1
    /\ isProcessing <=> \E t \in Ticks : InFlight(t)
    /\ Cardinality({i \in MQ_Rows : mq[i].status = "processing"}) <= 1
    /\ \A i \in MQ_Rows : mq[i].status = "processing" =>
          \E t \in Ticks : InFlight(t) /\ tick[t].pending.id = i
    /\ Cardinality({t \in Ticks : RInFlight(t)}) <= 1
    /\ rIsProcessing <=> \E t \in Ticks : RInFlight(t)
    /\ Cardinality({i \in RQ_Rows : rq[i].status = "processing"}) <= 1
    /\ \A i \in RQ_Rows : rq[i].status = "processing" =>
          \E t \in Ticks : RInFlight(t) /\ rtick[t].pending.id = i
    /\ skipped => (isProcessing \/ rIsProcessing)

\* a timer tick fired while the previous processQueue call was awaiting the
\* unit of work of the job it had marked processing
C7_Witness ==
    /\ skipped
    /\ \E t \in Ticks : tick[t].pc = "generate" /\ mq[tick[t].pending.id].status = "processing"
    /\ \E i \in MQ_Rows : mq[i].status = "pending"

\* C8 (as claimed): no poll tick lets an exception escape to its caller, and a
\* job a tick moved to processing is completed, pending or failed once that
\* tick has returned, whatever fails during the tick.
C8_NoEscapeNoStuckJob ==
    /\ ~escaped
    /\ \A i \in MQ_Rows : mq[i].status = "processing" => Holders(i) # {}
    /\ \A i \in RQ_Rows : rq[i].status = "processing" => RHolders(i) # {}

----------------------------------------------------------------------------
\* Fairness: the worker's timer keeps calling processQueue and a key is
\* available when it does (MQ_Start), every await of a tick settles, and the
\* unit of work does not raise the rate-limit signal forever (MQ_Settles).
MQ_Start(t) == MQ_ProcessQueue(t) /\ tick'[t].pc = "select"
MQ_Settles(t) ==
    MQ_Generate(t) /\ ~(tick'[t].pc = "catch" /\ IsRateLimit(tick'[t].error))

MQ_Fair ==
    \A t \in Ticks :
        /\ WF_vars(MQ_Start(t))
        /\ WF_vars(MQ_SelectPending(t))
        /\ WF_vars(MQ_MarkProcessing(t))
        /\ WF_vars(MQ_GetContact(t))
        /\ SF_vars(MQ_Settles(t))
        /\ WF_vars(MQ_MarkCompleted(t))
        /\ WF_vars(MQ_HandleError(t))

FairSpecQueue == SpecQueue /\ MQ_Fair

\* C9: under that fairness, every message job that is pending eventually is
\* completed or failed.
C9_PendingEventuallyTerminal ==
    \A i \in Calls :
        (i <= Len(mq) /\ mq[i].status = "pending")
            ~> (i <= Len(mq) /\ mq[i].status \in {"completed", "failed"})

\* a job that went back to pending twice has been completed
C9_Witness ==
    \E i \in MQ_Rows : mq[i].status = "completed" /\ mq[i].retryCount = 2

----------------------------------------------------------------------------
\* Properties of the message buffer

BatchIdx(k) == {n \in 1..Len(hist[k]) : hist[k][n].type = "batch"}
\* the onBatch call of k before its event n (0: none)
PrevBatch(k, n) ==
    LET B == {p \in BatchIdx(k) : p < n}
    IN  IF B = {} THEN 0 ELSE CHOOSE p \in B : \A q \in B : q <= p
\* the texts k's add calls passed between its events p and n, in order
TextsBetween(k, p, n) == [i \in 1..(n - p - 1) |-> hist[k][p + i].text]

\* C10: the add calls a key receives until its timer fires end in one onBatch
\* call for that key: the call carries the texts of all of them, in order (all
\* those added since the key's previous onBatch call), it is made no earlier
\* than one debounce duration (the one the last add chose) after the last add,
\* and no second timer of the key is left armed to make another call.
C10_OneBatchPerBurst ==
    \A k \in BKeys :
        /\ Cardinality({tm \in armed : tm.jid = k}) <= 1
        /\ k \notin DOMAIN buffers => \A tm \in armed : tm.jid # k
        /\ \A n \in BatchIdx(k) :
              hist[k][n].by = "timer" =>
                  /\ ~hist[k][n].early
                  /\ n - PrevBatch(k, n) - 1 >= 1
                  /\ hist[k][n].messages = TextsBetween(k, PrevBatch(k, n), n)

\* add(k, 1), later add(k, 2) before the timer fired, then one onBatch(k, [1, 2])
C10_Witness ==
    \E k \in BKeys :
        /\ Len(hist[k]) = 3
        /\ hist[k][3] = [type |-> "batch", messages |-> <<1, 2>>, by |-> "timer",
                         early |-> FALSE]
        /\ lastAdd[k].at > 0
        /\ armed = {}

\* the accumulator of k (none: empty)
Buffered(k) == IF k \in DOMAIN buffers THEN buffers[k] ELSE <<>>
IsAdd(e) == e.type = "add"
IsBatch(e) == e.type = "batch"
\* the texts add(k, text) was given, in call order
AddTexts(k) ==
    LET adds == SelectSeq(hist[k], IsAdd)
    IN  [i \in 1..Len(adds) |-> adds[i].text]
RECURSIVE Concat(_)
Concat(batches) ==
    IF batches = <<>> THEN <<>> ELSE Head(batches).messages \o Concat(Tail(batches))
\* the texts onBatch(k, messages) was given, batch after batch
Delivered(k) == Concat(SelectSeq(hist[k], IsBatch))
\* the armed timers of k
ArmedFor(k) == {tm \in armed : tm.jid = k}

\* C11: for every key, the batches delivered to onBatch, one after the other,
\* followed by the texts still in the accumulator, are exactly the texts given
\* to add for that key in the order they were added: none is delivered twice,
\* dropped, reordered or delivered for another key; and texts not delivered
\* yet have the key's timer armed to deliver them.
C11_ExactlyOnceInOrder ==
    /\ \A k \in BKeys :
          /\ Delivered(k) \o Buffered(k) = AddTexts(k)
          /\ Buffered(k) # <<>> =>
                \E tm \in ArmedFor(k) : k \in DOMAIN timers /\ timers[k] = tm.id
    /\ \A k1, k2 \in BKeys :
          k1 # k2 => Elems(Delivered(k1)) \cap Elems(AddTexts(k2)) = {}

\* one key's three texts delivered in two batches, one flushed, one by its timer
C11_Witness ==
    \E k \in BKeys :
        /\ AddTexts(k) = <<1, 2, 3>>
        /\ Delivered(k) = <<1, 2, 3>>
        /\ \E n, m \in BatchIdx(k) : hist[k][n].by = "flush" /\ hist[k][m].by = "timer"

\* what the buffer holds for key y: its accumulator, timer handle and armed timers
KeyView(y) ==
    [buffer |-> IF y \in DOMAIN buffers THEN <<buffers[y]>> ELSE <<>>,
     timer |-> IF y \in DOMAIN timers THEN <<timers[y]>> ELSE <<>>,
     armed |-> ArmedFor(y)]

\* the pending timer of y is the one y's latest add armed, with its deadline
C13_OwnDeadline ==
    \A y \in BKeys :
        /\ \A tm \in ArmedFor(y) :
              /\ y \in DOMAIN timers /\ timers[y] = tm.id
              /\ tm.due = lastAdd[y].at + lastAdd[y].debounce
        /\ \A n \in BatchIdx(y) : hist[y][n].by = "timer" => ~hist[y][n].early

\* a step that is no add and no batch of y leaves y's part of the buffer alone
C13_OthersLeaveAlone == \A y \in BKeys : hist'[y] = hist[y] => KeyView(y)' = KeyView(y)

\* C13: the accumulator, the timer handle and the armed timer of a key y change
\* only in y's own add and y's own flush: add(x), flush(x) and x's timer leave
\* them as they are, so the timer that flushes y is the one y's latest add
\* armed and it fires no earlier than the deadline that add set.
C13_KeyIndependence == []C13_OwnDeadline /\ [][C13_OthersLeaveAlone]_vars

\* y was added once and flushed by its own timer, while x was added twice
\* between y's add and y's deadline
C13_Witness ==
    \E x, y \in BKeys :
        /\ x # y
        /\ hist[y] = <<[type |-> "add", text |-> 1, during |-> FALSE],
                       [type |-> "batch", messages |-> <<1>>, by |-> "timer",
                        early |-> FALSE]>>
        /\ AddTexts(x) = <<2, 3>>
        /\ lastAdd[x].at > lastAdd[y].at
        /\ lastAdd[x].at < lastAdd[y].at + lastAdd[y].debounce

\* the event of k's history after which nothing was delivered (0: its start)
LastBatch(k) == PrevBatch(k, Len(hist[k]) + 1)

\* C14: after a flush whose callback returned, threw or called add or flush
\* for the same key, the accumulator holds only texts added since that
\* onBatch call (those added during the callback included), every onBatch
\* call carried exactly the texts added since the one before it, and a key
\* with an accumulator has one armed timer, the one its latest add armed.
C14_ClearedBeforeCallback ==
    \A k \in BKeys :
        /\ Buffered(k) = TextsBetween(k, LastBatch(k), Len(hist[k]) + 1)
        /\ \A n \in BatchIdx(k) : hist[k][n].messages = TextsBetween(k, PrevBatch(k, n), n)
        /\ \A n \in 1..Len(hist[k]) :
              (IsAdd(hist[k][n]) /\ hist[k][n].during) => (n > 1 /\ IsBatch(hist[k][n - 1]))
        /\ IF k \in DOMAIN buffers
           THEN /\ LastBatch(k) < Len(hist[k])
                /\ k \in DOMAIN timers
                /\ timers[k] = hist[k][Len(hist[k])].text
                /\ Cardinality(ArmedFor(k)) = 1
                /\ \A tm \in ArmedFor(k) :
                      tm.id = timers[k] /\ tm.due = lastAdd[k].at + lastAdd[k].debounce
           ELSE /\ k \notin DOMAIN timers
                /\ ArmedFor(k) = {}

\* the callback of a flush added a text for the flushed key: the batch carried
\* the old texts, the new text is alone in a fresh accumulator with a timer
C14_Witness ==
    \E k \in BKeys :
        /\ lastCb = "add"
        /\ Len(hist[k]) = 4
        /\ IsBatch(hist[k][3]) /\ hist[k][3].messages = <<1, 2>>
        /\ hist[k][4] = [type |-> "add", text |-> 3, during |-> TRUE]
        /\ Buffered(k) = <<3>>
        /\ ArmedFor(k) # {}

----------------------------------------------------------------------------
\* Properties of the adaptive debounce

----------------------------------------------------------------------------
\* Properties of the RateLimiter

RL_Done(c) == rlCall[c].pc = "done"
RL_Threw(c) == rlCall[c].result.kind = "threw"
RL_Returned(c) == rlCall[c].result.kind = "returned"

\* a call one of whose attempts failed with another error than a rate limit
\* has ended with that error, and if that was all it met, after one fn() call
C15_OtherErrorState ==
    \A c \in RLCalls :
        /\ "other" \in rlCall[c].kinds =>
              /\ RL_Done(c) /\ RL_Threw(c)
              /\ ~IsRateLimitShaped(rlCall[c].result.error)
        /\ rlCall[c].kinds = {"other"} =>
              rlCall[c].invocations = 1 /\ rlCall[c].attempt = 0

\* the step in which a call throws starts at await fn(), takes no time, arms
\* no timer and leaves lastRequestTime as it is
C15_ThrowStep ==
    \A c \in RLCalls :
        (~RL_Threw(c) /\ RL_Threw(c)') =>
            /\ rlCall[c].pc = "fn"
            /\ rlCall'[c].wake = rlCall[c].wake
            /\ rlCall'[c].invocations = rlCall[c].invocations
            /\ rlNow' = rlNow
            /\ lastRequestTime' = lastRequestTime

\* C15: execute whose operation fails with an error that is not
\* rate-limit-shaped calls the operation once, throws that error to its caller
\* in the same step, with no backoff timer armed and no time spent, and does
\* not touch lastRequestTime.
C15_OtherErrorNotRetried == []C15_OtherErrorState /\ [][C15_ThrowStep]_vars

\* an operation failed at once with an error that is no rate limit
C15_Witness ==
    \E c \in RLCalls :
        /\ RL_Done(c)
        /\ rlCall[c].result = [kind |-> "threw", error |-> RL_ErrOther]
        /\ rlCall[c].invocations = 1

\* the fn() calls of a call number its backoff waits plus one, there are at
\* most maxRetries waits, and a call that throws a rate-limit error made
\* maxRetries + 1 of them
C16_RetryState ==
    \A c \in RLCalls :
        /\ rlCall[c].attempt <= Limiter.maxRetries
        /\ rlCall[c].pc = "throttle" => rlCall[c].invocations = rlCall[c].attempt
        /\ rlCall[c].pc \in {"fn", "backoff", "done"} =>
              rlCall[c].invocations = rlCall[c].attempt + 1
        /\ rlCall[c].pc = "backoff" =>
              /\ rlCall[c].attempt < Limiter.maxRetries
              /\ rlCall[c].kinds = {"rate-limit"}
        /\ (RL_Done(c) /\ RL_Threw(c) /\ rlCall[c].kinds = {"rate-limit"}) =>
              /\ rlCall[c].invocations = Limiter.maxRetries + 1
              /\ IsRateLimitShaped(rlCall[c].result.error)
        /\ RL_Done(c) => (RL_Threw(c) \/ RL_Returned(c))
        /\ RL_Returned(c) => RL_Done(c) /\ "other" \notin rlCall[c].kinds

\* a backoff wait lasts at least initialDelayMs and the next attempt comes
\* after it; a call that has returned or thrown does nothing more
C16_RetryStep ==
    \A c \in RLCalls :
        /\ (rlCall[c].pc # "backoff" /\ rlCall'[c].pc = "backoff") =>
              rlCall'[c].wake >= rlNow + Limiter.initialDelayMs
        /\ (rlCall[c].pc = "backoff" /\ rlCall'[c].pc # "backoff") =>
              /\ rlNow >= rlCall[c].wake
              /\ rlCall'[c].attempt = rlCall[c].attempt + 1
        /\ RL_Done(c) => rlCall'[c] = rlCall[c]

\* C16: execute whose operation keeps failing with rate-limit-shaped errors
\* calls it maxRetries + 1 times, with a backoff wait before each retry, and
\* then throws the error of the last call; when a call of the operation
\* succeeds its result is returned and the operation is not called again.
C16_RetriesThenRethrow == []C16_RetryState /\ [][C16_RetryStep]_vars

\* an operation that was rate limited on every attempt
C16_Witness ==
    \E c \in RLCalls :
        /\ RL_Done(c) /\ RL_Threw(c)
        /\ IsRateLimitShaped(rlCall[c].result.error)
        /\ rlCall[c].invocations = Limiter.maxRetries + 1

\* C18: whenever fn() is called, by whichever execute call and whatever other
\* calls are pending, at least throttleDelayMs have passed since the latest
\* successful completion on the instance (lastRequestTime).
C18_ThrottleSpacing ==
    [][\A c \in RLCalls :
          (rlCall[c].pc # "fn" /\ rlCall'[c].pc = "fn") =>
              rlNow' - lastRequestTime' >= Limiter.throttleDelayMs]_vars

\* the calls submitted through queue(), and those whose wrapper has started
RL_Submitted == {c \in RLCalls : rlCall[c].pc # "new"}
RL_Running == {c \in RLCalls : rlCall[c].pc \notin {"new", "queued", "done"}}
RL_Draining == {l \in Drains : drain[l].pc # "idle"}

\* C19: operations submitted through queue() start in submission order and one
\* at a time: one starts only when every operation submitted before it has
\* settled, returned or thrown; the waiting ones sit in requestQueue in
\* submission order; and at most one drain loop runs, which is the case
\* exactly while isProcessingQueue is set.
C19_QueueSerial ==
    instance = "queue" =>
        /\ \A c1, c2 \in RL_Submitted :
              (c1 < c2 /\ rlCall[c2].pc # "queued") => RL_Done(c1)
        /\ Cardinality(RL_Running) <= 1
        /\ Cardinality(RL_Draining) <= 1
        /\ isProcessingQueue <=> RL_Draining # {}
        /\ \A i, j \in 1..Len(requestQueue) : i < j => requestQueue[i] < requestQueue[j]
        /\ Elems(requestQueue) = {c \in RLCalls : rlCall[c].pc = "queued"}
        /\ \A l \in RL_Draining : RL_Running \subseteq {drain[l].cur}

\* the first operation failed after its retries and the second, submitted
\* while the first was running, started after that
C19_Witness ==
    /\ instance = "queue"
    /\ RL_Done(1) /\ RL_Threw(1) /\ rlCall[1].invocations = Limiter.maxRetries + 1
    /\ rlCall[2].pc = "fn"
    /\ requestQueue = <<>>

\* C17: the delay calculateBackoffDelay returns lies between initialDelayMs
\* and maxDelayMs for every attempt and every value of Math.random(), and the
\* delay before jitter does not shrink from one attempt to the next.
C17_BackoffBounds ==
    fnRes # NoRes =>
        /\ LessEq(Whole(fnArg.cfg.initialDelayMs), fnRes.delay)
        /\ LessEq(fnRes.delay, Whole(fnArg.cfg.maxDelayMs))
        /\ LessEq(fnRes.exponentialDelay, fnRes.nextExponentialDelay)

\* a getOrNull call that has just run up to its first await or its return
C_GetEntered(c) == cCall[c].pc = "new" /\ cCall'[c].pc # "new" /\ cCall'[c].op = "get"

C20_HitStep ==
    \A c \in CCalls :
        (/\ C_GetEntered(c)
         /\ cCall'[c].jid \in DOMAIN inMemoryCache
         /\ cNow - inMemoryCache[cCall'[c].jid].timestamp < CACHE_TTL_MS)
        => /\ cCall'[c].pc = "done"
           /\ cCall'[c].result = inMemoryCache[cCall'[c].jid].data
           /\ cCall'[c].dbOps = 0
           /\ groupsTable' = groupsTable

\* C20: a getOrNull(K) that finds an in-memory entry for K younger than
\* CACHE_TTL_MS returns that entry's data at once, without sending anything to
\* the database, whatever the groups table holds for K.
C20_MemoryTierFirst == [][C20_HitStep]_vars

\* a getOrNull returned a version from memory without any database operation
\* while the healthy, available database holds another version for the key
C20_Witness ==
    \E c \in CCalls :
        /\ cCall[c].pc = "done" /\ cCall[c].op = "get"
        /\ cCall[c].result # Null
        /\ cCall[c].dbOps = 0
        /\ dbHealth = "ok" /\ dbAvailable
        /\ cCall[c].jid \in DOMAIN groupsTable
        /\ groupsTable[cCall[c].jid].version # cCall[c].result.version

\* a getOrNull or setFromApi call that has just run up to its first await or
\* its return
C_Entered(c) == cCall[c].pc = "new" /\ cCall'[c].pc # "new"

\* the probe of call c has just succeeded
C_ProbeSucceeded(c) ==
    cCall[c].pc = "probe" /\ cCall'[c].pc \in {"query", "insert"} /\ dbHealth = "ok"

C21_Step ==
    /\ \A c \in CCalls :
          (cCall[c].pc = "probe" /\ cCall'[c].pc # "probe" /\ dbHealth = "missing")
          => ~dbAvailable'
    /\ (~dbAvailable /\ dbAvailable') => \E c \in CCalls : C_ProbeSucceeded(c)
    /\ \A c \in CCalls :
          (~dbAvailable /\ C_Entered(c))
          => LET jid == cCall'[c].jid
                 hit == /\ jid \in DOMAIN inMemoryCache
                        /\ cNow - inMemoryCache[jid].timestamp < CACHE_TTL_MS
             IN  /\ cCall'[c].pc = "done"
                 /\ cCall'[c].dbOps = 0
                 /\ groupsTable' = groupsTable
                 /\ cCall'[c].op = "get" =>
                       /\ inMemoryCache' = inMemoryCache
                       /\ cCall'[c].result = IF hit THEN inMemoryCache[jid].data ELSE Null
                 /\ cCall'[c].op = "set" =>
                       /\ jid \in DOMAIN inMemoryCache'
                       /\ inMemoryCache'[jid].data = cCall'[c].result

\* C21: a probe that fails with "relation does not exist" marks the database
\* unavailable; it stays so until a probe succeeds, and a getOrNull or
\* setFromApi called in between sends no query, insert or update: getOrNull
\* answers from the in-memory map only and setFromApi writes to it only.
C21_MemoryOnlyAfterFailedProbe == [][C21_Step]_vars

\* the first call's probe failed on the missing relation, and a later
\* getOrNull missed without any database operation although the database is
\* healthy again
C21_Witness ==
    /\ ~dbAvailable /\ dbHealth = "ok"
    /\ cCall[1].pc = "done" /\ cCall[1].err = "missing" /\ cCall[1].dbOps = 1
    /\ cCall[2].pc = "done" /\ cCall[2].op = "get" /\ cCall[2].dbOps = 0
    /\ cCall[2].result = Null

C22_Step ==
    \A c \in CCalls :
        (/\ ~dbAvailable
         /\ C_Entered(c)
         /\ cCall'[c].op = "get"
         /\ ~(/\ cCall'[c].jid \in DOMAIN inMemoryCache
              /\ cNow - inMemoryCache[cCall'[c].jid].timestamp < CACHE_TTL_MS))
        => cCall'[c].pc = "probe"

\* C22: once the database is marked unavailable, a later getOrNull that misses
\* the in-memory map probes the database again, so that memory-only mode ends
\* when the database has become healthy.
C22_ProbesAgain == [][C22_Step]_vars

\* a call that met a database error has returned or is still running, a
\* getOrNull among them returned null, and a setFromApi holds the entry it made
C23_NothingPropagates ==
    \A c \in CCalls :
        /\ cCall[c].pc # "threw"
        /\ (cCall[c].err # "none" /\ cCall[c].pc = "done") =>
              /\ cCall[c].op = "get" => cCall[c].result = Null
              /\ cCall[c].op = "set" =>
                    /\ cCall[c].result # Null
                    /\ cCall[c].result.version = c
                    /\ ~cCall[c].result.cached

\* setFromApi writes the in-memory map before anything is sent to the
\* database, and a getOrNull entered while that entry is in the map with the
\* clock unchanged returns it
C23_Step ==
    /\ \A c \in CCalls :
          (C_Entered(c) /\ cCall'[c].op = "set")
          => /\ cCall'[c].jid \in DOMAIN inMemoryCache'
             /\ inMemoryCache'[cCall'[c].jid] =
                   [data |-> cCall'[c].result, timestamp |-> cNow]
             /\ groupsTable' = groupsTable
    /\ \A c, d \in CCalls :
          (/\ C_Entered(c) /\ cCall'[c].op = "get"
           /\ cCall[d].op = "set" /\ cCall[d].pc # "new"
           /\ cCall[d].jid = cCall'[c].jid
           /\ cCall[d].jid \in DOMAIN inMemoryCache
           /\ inMemoryCache[cCall[d].jid] = [data |-> cCall[d].result, timestamp |-> cNow])
          => cCall'[c].pc = "done" /\ cCall'[c].result = cCall[d].result

\* C23: no database error leaves getOrNull or setFromApi: when the probe, the
\* query, the insert or the update throws, getOrNull returns null and
\* setFromApi returns the entry it built, which it wrote to the in-memory map
\* before touching the database, so that a getOrNull made right away returns it.
C23_DurableErrorsSwallowed == []C23_NothingPropagates /\ [][C23_Step]_vars

\* a setFromApi whose database statement failed has returned its entry, and
\* the getOrNull after it returned that entry
C23_Witness ==
    /\ cCall[1].pc = "done" /\ cCall[1].op = "set" /\ cCall[1].err # "none"
    /\ cCall[1].dbOps >= 2
    /\ cCall[2].pc = "done" /\ cCall[2].op = "get"
    /\ cCall[2].result = cCall[1].result

\* the records of list whose deleteMessage was never called, in order
RECURSIVE NotCalled(_)
NotCalled(list) ==
    IF list = <<>> THEN <<>>
    ELSE IF <<Head(list).jid, Head(list).messageKey>> \in DOMAIN deleteCalls
         THEN NotCalled(Tail(list))
         ELSE <<Head(list)>> \o NotCalled(Tail(list))

\* no runCleanup is between a deleteMessage call and its return
E_Quiet == \A p \in Passes : pass[p].pc # "deleting"

\* no record got a second deleteMessage call, and outside a pass the list in
\* memory and the list in the file hold the records never passed to
\* deleteMessage, in the order of tracking
C24_Reconciled ==
    /\ \A key \in DOMAIN deleteCalls : deleteCalls[key] = 1
    /\ E_Quiet =>
          /\ adsArrays[adsRef] = NotCalled(tracked)
          /\ persisted = NotCalled(tracked)

\* a runCleanup with a client returns: the records of its list that were
\* expired at its now were each passed to deleteMessage once, and the others
\* are the list now, in their order, without a deleteMessage call
C24_Step ==
    \A p \in Passes :
        (pass[p].pc \in {"idle", "deleting"} /\ pass'[p].pc = "done")
        => LET idle == pass[p].pc = "idle"
               list == adsArrays[IF idle THEN adsRef ELSE pass[p].iter]
               at == IF idle THEN eNow ELSE pass[p].now
               kept == SelectSeq(list, LAMBDA ad : ~Expired(ad, at))
           IN  /\ adsArrays'[adsRef'] = kept
               /\ persisted' = kept
               /\ \A i \in 1..Len(list) :
                     LET key == <<list[i].jid, list[i].messageKey>>
                     IN  IF Expired(list[i], at)
                         THEN key \in DOMAIN deleteCalls' /\ deleteCalls'[key] = 1
                         ELSE key \notin DOMAIN deleteCalls'

\* C24: a runCleanup with a client set calls deleteMessage(jid, messageKey)
\* exactly once for every record with now >= sentAt + ttl and drops it from the
\* list in memory and in the file; a record whose TTL has not elapsed gets no
\* call and stays in the list, in its original relative order.
C24_ExpiredDeletedOnce == []C24_Reconciled /\ [][C24_Step]_vars

\* the records of list, as a set of <<jid, messageKey>>
KeysOf(list) == {<<list[i].jid, list[i].messageKey>> : i \in 1..Len(list)}

\* a record whose deleteMessage threw was passed to deleteMessage once only, no
\* runCleanup ended by throwing, and outside a pass such a record is neither in
\* the list in memory nor in the file
C25_Dropped ==
    /\ \A key \in deleteFailed : deleteCalls[key] = 1
    /\ \A p \in Passes : pass[p].pc # "threw"
    /\ E_Quiet => /\ KeysOf(adsArrays[adsRef]) \cap deleteFailed = {}
                  /\ KeysOf(persisted) \cap deleteFailed = {}

\* a deleteMessage call throws: the pass goes on with the records after it as
\* it does after a successful call, and the record is not kept
C25_Step ==
    \A p \in Passes :
        (pass[p].pc = "deleting" /\ deleteFailed' # deleteFailed /\ pass'[p] # pass[p])
        => LET list == adsArrays[pass[p].iter]
               scan == Scan(list, pass[p].idx + 1, pass[p].remainingAds, pass[p].now)
           IN  IF scan.atEnd
               THEN /\ pass'[p].pc = "done"
                    /\ KeysOf(adsArrays'[adsRef']) \cap deleteFailed' = {}
               ELSE /\ pass'[p].pc = "deleting"
                    /\ pass'[p].idx = scan.idx
                    /\ pass'[p].remainingAds = scan.remainingAds

\* C25: an expired record whose deleteMessage call fails is dropped from the
\* list by the same runCleanup, like a deleted one: deleteMessage is never
\* called for it again, the pass goes on with the remaining records, and
\* runCleanup does not throw.
C25_FailedDeleteDropped == []C25_Dropped /\ [][C25_Step]_vars

\* the armed timers that run callback k
W_ArmedFor(k) == {t \in armedTimers : t.callback = k}

\* isRunning holds exactly when one timer of each kind is armed, and no timer
\* is armed otherwise
C26_RunningIffArmed ==
    IF isRunning
    THEN \A k \in TimerKinds :
            /\ Cardinality(W_ArmedFor(k)) = 1
            /\ \A t \in W_ArmedFor(k) : t.handle = intervals[k]
    ELSE armedTimers = {} /\ intervals = NoIntervals

\* what a start or stop call does to the timers
C26_Step ==
    (wOps' # wOps) =>
        /\ (wLast' = "start" /\ isRunning) => armedTimers' = armedTimers
        /\ (wLast' = "start" /\ ~isRunning) =>
              /\ isRunning'
              /\ Cardinality(armedTimers') = 3
              /\ armedTimers' \cap armedTimers = {}
        /\ wLast' = "stop" => armedTimers' = {} /\ ~isRunning'

\* C26: after any sequence of start() and stop() calls, isRunning is true
\* exactly when one message-queue timer, one report-queue timer and one cleanup
\* timer are armed: start() while running arms nothing more, stop() leaves no
\* timer armed, and start() after stop() arms the three timers again.
C26_StartStopIdempotent == []C26_RunningIffArmed /\ [][C26_Step]_vars

\* running again after start, start, stop, start: the timers are those of the
\* last start
C26_Witness ==
    /\ isRunning /\ wOps = 4 /\ nextHandle = 6
    /\ \A t \in armedTimers : t.handle > 3
    /\ \A k \in TimerKinds : fired[k] > 0

\* the delete of a cleanup() call takes effect in this step
Q_CleanupStep == cleanupCall.pc = "delete" /\ cleanupCall'.pc = "idle"

\* what the delete does to the rows of the message queue
C27_MessageRows ==
    \A i \in 1..Len(mq) :
        IF mq'[i].status = "deleted" /\ mq[i].status # "deleted"
        THEN mq[i].status = "completed" /\ now - mq[i].processedAt > MQ_Retention
        ELSE mq'[i] = mq[i]

\* what the delete does to the rows of the report queue
C27_ReportRows ==
    \A i \in 1..Len(rq) :
        IF rq'[i].status = "deleted" /\ rq[i].status # "deleted"
        THEN rq[i].status = "completed" /\ now - rq[i].updatedAt > RQ_Retention
        ELSE rq'[i] = rq[i]

\* C27: cleanup() of either queue deletes a job only if it is completed and was
\* completed longer ago than the queue's retention window (24 hours for message
\* jobs, 7 days for report jobs); every other job is left as it is.
C27_CleanupKeepsRecent == [][Q_CleanupStep => (C27_MessageRows /\ C27_ReportRows)]_vars

\* how many notifyOwner calls were made about a job
Notices(job) == IF job \in DOMAIN notices THEN notices[job] ELSE 0

\* C28: whenever a job of either queue becomes failed, exactly one notification
\* about that failure is sent to the owner for that job (and none for a job
\* that has not failed).
C28_FailedNotifiedOnce ==
    /\ \A i \in 1..Len(mq) :
          Notices(<<"message", i>>) = (IF mq[i].status = "failed" THEN 1 ELSE 0)
    /\ \A i \in 1..Len(rq) :
          Notices(<<"report", i>>) = (IF rq[i].status = "failed" THEN 1 ELSE 0)

----------------------------------------------------------------------------
\* the pending or processing report jobs of one contact and conversation
RQ_NonTerminal(contactPhone, conversationId) ==
    {i \in 1..Len(rq) : /\ rq[i].contactPhone = contactPhone
                        /\ rq[i].conversationId = conversationId
                        /\ rq[i].status \in {"pending", "processing"}}

\* C29: the report queue holds at most one pending or processing job for a
\* contact and conversation: an enqueue for a pair that already has such a job
\* adds no second pending row.
C29_OneNonTerminalReport ==
    \A i \in 1..Len(rq) :
        Cardinality(RQ_NonTerminal(rq[i].contactPhone, rq[i].conversationId)) <= 1

----------------------------------------------------------------------------
Terminal(status) == status \in {"completed", "failed"}

\* a step leaves the status of every terminal job alone, or cleanup deletes it
Q_TerminalStatusKept(old, new) ==
    \A i \in 1..Len(old) :
        Terminal(old[i].status) =>
            /\ i <= Len(new)
            /\ \/ new[i].status = old[i].status
               \/ new[i] = Deleted(old[i]) /\ cleanupCall.pc = "delete"

C30_Step == Q_TerminalStatusKept(mq, mq') /\ Q_TerminalStatusKept(rq, rq')

----------------------------------------------------------------------------
\* the rows of a table whose status a step changes
StatusChanged(old, new) ==
    {i \in 1..Len(old) : i <= Len(new) /\ new[i].status # old[i].status}

\* what one step may do to the ticks `tk` of a queue with rows `old`/`new`,
\* guard `busy` and pending rows `nextPending`
Q_OneJobPerTick(tk, tkNew, old, new, busy, nextPending) ==
    \* an invocation goes past its entry only if none is in flight and a
    \* credential is available
    /\ \A t \in Ticks : (tk[t].pc = "idle" /\ tkNew[t].pc # "idle") => (~busy /\ ~noKey')
    \* a call that returned at the guard or for lack of a credential did nothing
    /\ ((skipped' /\ ~skipped) \/ (noKey' /\ ~noKey)) => (tkNew = tk /\ new = old)
    \* with no pending job the invocation ends, without a call or a write
    /\ \A t \in Ticks :
          (tk[t].pc = "select" /\ tkNew[t] # tk[t] /\ nextPending = {}) =>
              (tkNew[t] = Idle /\ new = old)
    \* the job an invocation works on is chosen once
    /\ \A t \in Ticks :
          (tk[t].pending.id # 0 /\ tkNew[t].pc # "idle") =>
              tkNew[t].pending.id = tk[t].pending.id
    \* a tick changes the status of the job it chose and of no other
    /\ (tkNew # tk) =>
          StatusChanged(old, new) \subseteq
              {tk[t].pending.id : t \in {u \in Ticks : tkNew[u] # tk[u]}}

C31_Step ==
    /\ Q_OneJobPerTick(tick, tick', mq, mq', isProcessing, MQ_NextPending)
    /\ Q_OneJobPerTick(rtick, rtick', rq, rq', rIsProcessing, RQ_NextPending)

\* C31: one invocation of processQueue or processReports makes at most one AI
\* generation call and changes the status of at most one job, however many
\* jobs are pending; re-entered, without a credential or with no pending job
\* it makes no call and changes no row.
C31_OneCallPerTick ==
    /\ [](\A t \in Ticks : tick[t].calls <= 1 /\ rtick[t].calls <= 1)
    /\ [][C31_Step]_vars

\* an invocation completed one of two queued jobs while the other was already
\* waiting, and the call after it returned for lack of a credential
C31_Witness ==
    /\ noKey
    /\ \E i, j \in 1..Len(mq) :
          /\ mq[i].status = "completed"
          /\ mq[j].status = "pending"
          /\ mq[j].createdAt < mq[i].processedAt

----------------------------------------------------------------------------
\* the retry count a status goes with
Q_RetryCountFits(row) ==
    /\ row.status = "failed" => row.retryCount = MAX_RETRIES
    /\ row.status \in {"pending", "processing"} => row.retryCount < MAX_RETRIES

\* C32: in every reachable state a failed job has retryCount equal to
\* MAX_RETRIES (3), and a pending or processing job has retryCount below it.
C32_RetryCountMatchesStatus ==
    /\ \A i \in 1..Len(mq) : Q_RetryCountFits(mq[i])
    /\ \A i \in 1..Len(rq) : Q_RetryCountFits(rq[i])

----------------------------------------------------------------------------
\* the catch block of tick `t` handles an error that RateLimiter.execute takes
\* for a rate limit: the job is pending again, its retryCount as it was
Q_RateLimitShapedRequeued(tk, tkNew, old, new) ==
    \A t \in Ticks :
        (/\ tk[t].pc = "catch"
         /\ tkNew[t].pc # "catch"
         /\ IsRateLimitShaped(tk[t].error)) =>
            LET id == tk[t].pending.id IN
            /\ new[id].status = "pending"
            /\ new[id].retryCount = old[id].retryCount

C33_Step ==
    /\ Q_RateLimitShapedRequeued(tick, tick', mq, mq')
    /\ Q_RateLimitShapedRequeued(rtick, rtick', rq, rq')

\* C33: every error that RateLimiter.execute classifies as rate-limit-shaped
\* (data or statusCode 429, or a message containing '429' or 'rate-overlimit')
\* and that a queue job's unit of work raises is handled by the queue as the
\* rate-limit outcome: the job returns to pending with retryCount unchanged.
C33_RateLimitShapedIsRequeued == [][C33_Step]_vars

----------------------------------------------------------------------------
\* the delete of a cleanup call takes effect in this step
Q_CleanupDeleteStep == cleanupCall.pc = "delete" /\ cleanupCall'.pc = "idle"

\* the failed jobs that were created a retention window or more before the
\* cleanup call in flight
Q_FailedExpired(rows) ==
    {i \in 1..Len(rows) : rows[i].status = "failed" /\ rows[i].createdAt <= cleanupCall.cutoff}

\* C34 as stated: every job that reaches status failed is removed from the
\* store by the periodic cleanup once its retention window has passed.
C34_FailedRemoved ==
    [][Q_CleanupDeleteStep =>
          /\ \A i \in Q_FailedExpired(mq) : instance = "message" => mq'[i].status = "deleted"
          /\ \A i \in Q_FailedExpired(rq) : instance = "report" => rq'[i].status = "deleted"]_vars

C34_Step ==
    /\ \A i \in 1..Len(mq) : mq[i].status = "failed" => mq'[i].status = "failed"
    /\ \A i \in 1..Len(rq) : rq[i].status = "failed" => rq'[i].status = "failed"

\* C34: cleanup removes completed jobs only: a job that has reached status
\* failed stays in the store, as failed, through every cleanup, however long
\* ago it failed.
C34_FailedKept == [][C34_Step]_vars

\* the delete of a cleanup call is under way in a store that holds a failed
\* job older than the retention window, next to a completed job it removes
C34_Witness ==
    /\ instance = "message"
    /\ cleanupCall.pc = "delete"
    /\ Q_FailedExpired(mq) # {}
    /\ \E j \in 1..Len(mq) : MQ_CleanupWhere(mq[j], cleanupCall.cutoff)

----------------------------------------------------------------------------
\* the pending timers of a key
B_PendingTimers(jid) == {tm \in armed : tm.jid = jid}

\* a key has an accumulator exactly if it has one pending timer, the one the
\* timers map holds for it, and no accumulator is empty
B_OneTimerPerAccumulator ==
    \A jid \in BKeys :
        /\ jid \in DOMAIN buffers <=> Cardinality(B_PendingTimers(jid)) = 1
        /\ jid \notin DOMAIN buffers => B_PendingTimers(jid) = {}
        /\ jid \in DOMAIN buffers <=> jid \in DOMAIN timers
        /\ jid \in DOMAIN buffers =>
              /\ buffers[jid] # <<>>
              /\ \A tm \in B_PendingTimers(jid) : tm.id = timers[jid]

\* the entries a step appends to the history of a key
B_NewEntries(jid) == SubSeq(hist'[jid], Len(hist[jid]) + 1, Len(hist'[jid]))

C35_Step ==
    \* no callback is invoked for a key that has no accumulator
    /\ \A jid \in BKeys :
          jid \notin DOMAIN buffers =>
              \A n \in 1..Len(B_NewEntries(jid)) : B_NewEntries(jid)[n].type = "add"
    \* a flush that invokes no callback changes nothing
    /\ (nAdds' = nAdds /\ clock' = clock /\ hist' = hist) =>
          UNCHANGED <<buffers, timers, armed, lastAdd, lastCb>>

\* C35: after every add and every flush of MessageBuffer a key has an
\* accumulator if and only if it has exactly one pending timer, and every
\* accumulator is non-empty; a flush of a key without accumulator invokes no
\* callback and changes no state.
C35_AccumulatorIffTimer == []B_OneTimerPerAccumulator /\ [][C35_Step]_vars

\* one key was flushed and has neither accumulator nor timer, the other key has
\* two texts waiting for its one timer
C35_Witness ==
    \E j, k \in BKeys :
        /\ j \notin DOMAIN buffers
        /\ \E n \in 1..Len(hist[j]) : hist[j][n].type = "batch"
        /\ k \in DOMAIN buffers
        /\ Len(buffers[k]) = 2

----------------------------------------------------------------------------
\* the text is in the accumulator of a key
B_Buffered(text) ==
    \E k \in DOMAIN buffers : \E n \in 1..Len(buffers[k]) : buffers[k][n] = text

\* onBatch was invoked for the key with the text in its batch
B_Delivered(text) ==
    \E k \in BKeys : \E n \in 1..Len(hist[k]) :
        /\ hist[k][n].type = "batch"
        /\ \E m \in 1..Len(hist[k][n].messages) : hist[k][n].messages[m] = text

\* C36: once the add calls for a key stop, its timer eventually fires and
\* onBatch is invoked with every text added since the key's previous flush: no
\* added text stays buffered forever, whatever the other keys do.
C36_EveryTextDelivered ==
    <>[](\A text \in 1..nAdds : B_Delivered(text) /\ ~B_Buffered(text))

\* the timer of a key delivered two texts of that key after the other key had
\* been active in between
C36_Witness ==
    \E j, k \in BKeys :
        /\ j # k
        /\ hist[k] # <<>>
        /\ \E n \in 1..Len(hist[j]) :
              /\ hist[j][n].type = "batch"
              /\ hist[j][n].by = "timer"
              /\ hist[j][n].messages = <<1, 3>>

----------------------------------------------------------------------------
\* C37: the provenance flag tells cache hits from fresh fetches: every entry
\* returned by getOrNull, from the in-process map or from the durable tier,
\* has cached = true, and only the entry returned by setFromApi has cached =
\* false.
C37_ProvenanceFlag ==
    \A c \in CCalls :
        (cCall[c].pc = "done" /\ cCall[c].result # Null) =>
            (cCall[c].result.cached <=> cCall[c].op = "get")

----------------------------------------------------------------------------
\* the time a call read at its start, for a call that returns in this step
C_CalledAt(c) == IF cCall[c].pc = "new" THEN cNow ELSE cCall[c].now

\* a getOrNull call returns an entry in this step
C_GetReturnsEntry(c) ==
    /\ cCall[c].pc # "done"
    /\ cCall'[c].pc = "done"
    /\ cCall'[c].op = "get"
    /\ cCall'[c].result # Null

\* C38: with the in-process TTL and the durable TTL both T, every entry that
\* getOrNull returns holds data fetched from the source of truth less than T
\* before the call, after any sequence of put, get, invalidate and sweep.
C38_StalenessBound ==
    [][\A c \in CCalls :
          C_GetReturnsEntry(c) => C_CalledAt(c) - cCall'[c].result.updatedAt < CACHE_TTL_MS]_vars

----------------------------------------------------------------------------
\* the tracked records that are in neither list and were never passed to
\* deleteMessage
E_Lost(list) ==
    {i \in 1..Len(tracked) :
        LET key == <<tracked[i].jid, tracked[i].messageKey>>
        IN  key \notin KeysOf(list) /\ key \notin DOMAIN deleteCalls}

\* C39: under any interleaving of trackAd calls with runCleanup invocations at
\* their await points, overlapping invocations included, no tracked record
\* disappears from the list in memory and from the persisted list unless a
\* deleteMessage attempt was made for it.
C39_NoRecordLost == E_Lost(adsArrays[adsRef]) = {} /\ E_Lost(persisted) = {}

----------------------------------------------------------------------------
\* the send attempts of the broadcast follow the list: attempt n is for the
\* n-th group, and only the latest attempt can be unsettled
BC_InListOrder ==
    /\ Len(sendAttempts) <= Len(broadcast.groups)
    /\ \A n \in 1..Len(sendAttempts) :
          /\ sendAttempts[n].group = broadcast.groups[n]
          /\ n < Len(sendAttempts) => sendAttempts[n].outcome # "pending"

\* a broadcast that ended has attempted every group of the list
BC_AllAttempted ==
    broadcast.pc = "done" => Len(sendAttempts) = Len(broadcast.groups)

\* consecutive send attempts are at least the inter-send delay apart
BC_Spaced ==
    \A n \in 1..(Len(sendAttempts) - 1) :
        sendAttempts[n + 1].at - sendAttempts[n].at >= INTER_SEND_DELAY

\* C40: within one broadcast the groups are sent to one at a time in list
\* order, a failed send does not stop the sends to the remaining groups, and at
\* least the inter-send delay of 2 s lies between any two consecutive send
\* attempts, also after an attempt that failed.
C40_BroadcastSpaced == BC_InListOrder /\ BC_AllAttempted /\ BC_Spaced

====
